---- MODULE Spec2Model ----
(***************************************************************************)
(* A model of the component extraction scripts (extract_components*.py,    *)
(* extract_tailwind_style.py, migrate_to_histoire.py) and of the cleanup   *)
(* script (clean_migration.py).                                            *)
(*                                                                         *)
(* Python strings are sequences of one-character strings, so that `in`,    *)
(* startswith, slicing, len and `<` are computed character by character.   *)
(* A parsed document (the BeautifulSoup tree) is a tree of node records.   *)
(***************************************************************************)
EXTENDS Integers, Sequences, FiniteSets, TLC

-----------------------------------------------------------------------------
(* Python str operations *)

\* The printable ASCII characters, code 32 to 126, in code order (code 96 is
\* a placeholder: no string of the model holds a backtick).
Ascii == <<" ","!","\"","#","$","%","&","'","(",")","*","+",",","-",".","/","0","1","2","3","4","5","6","7","8","9",":",";","<","=",">","?","@","A","B","C","D","E","F","G","H","I","J","K","L","M","N","O","P","Q","R","S","T","U","V","W","X","Y","Z","[","\\","]","^","_","(backtick)","a","b","c","d","e","f","g","h","i","j","k","l","m","n","o","p","q","r","s","t","u","v","w","x","y","z","{","|","}","~">>

\* ord(c)
OrdOf == [c \in {Ascii[i] : i \in 1..Len(Ascii)} |-> 31 + (CHOOSE i \in 1..Len(Ascii) : Ascii[i] = c)]

Min(a, b) == IF a < b THEN a ELSE b

\* c.lower() of one character
LowerChar(c) == IF OrdOf[c] \in 65..90 THEN Ascii[OrdOf[c] + 1] ELSE c

\* c.upper() of one character
UpperChar(c) == IF OrdOf[c] \in 97..122 THEN Ascii[OrdOf[c] - 63] ELSE c

\* s.lower()
Lower(s) == [i \in 1..Len(s) |-> LowerChar(s[i])]

\* s.upper()
Upper(s) == [i \in 1..Len(s) |-> UpperChar(s[i])]

\* sub in s
Contains(s, sub) == \E i \in 0..(Len(s) - Len(sub)) : SubSeq(s, i + 1, i + Len(sub)) = sub

\* s.startswith(p)
StartsWith(s, p) == Len(p) <= Len(s) /\ SubSeq(s, 1, Len(p)) = p

\* s.endswith(p)
EndsWith(s, p) == Len(p) <= Len(s) /\ SubSeq(s, Len(s) - Len(p) + 1, Len(s)) = p

\* s[:n]
Slice(s, n) == SubSeq(s, 1, Min(n, Len(s)))

\* a < b on str: lexicographic by code point, a proper prefix is smaller
RECURSIVE StrLess(_, _)
StrLess(a, b) ==
  IF b = <<>> THEN FALSE
  ELSE IF a = <<>> THEN TRUE
  ELSE IF a[1] = b[1] THEN StrLess(Tail(a), Tail(b))
  ELSE OrdOf[a[1]] < OrdOf[b[1]]

\* s.strip() (the model's texts hold no whitespace but the space)
RECURSIVE LStrip(_)
LStrip(s) == IF s # <<>> /\ s[1] = " " THEN LStrip(Tail(s)) ELSE s

RECURSIVE RStrip(_)
RStrip(s) == IF s # <<>> /\ s[Len(s)] = " " THEN RStrip(SubSeq(s, 1, Len(s) - 1)) ELSE s

Strip(s) == RStrip(LStrip(s))

\* sep.join(parts)
RECURSIVE Join(_, _)
Join(parts, sep) ==
  IF parts = <<>> THEN <<>>
  ELSE IF Len(parts) = 1 THEN parts[1]
  ELSE parts[1] \o sep \o Join(Tail(parts), sep)

\* hashlib.md5(s.encode()).hexdigest(): a deterministic digest of the bytes of s.
\* The digest is a 15-bit polynomial checksum here (sum of ord(s[i]) * 31^(n-i)):
\* equal strings have equal digests, and distinct strings may collide, as with
\* any digest.
DigestMod == 32768

RECURSIVE Pow31(_)
Pow31(k) ==
  IF k = 0 THEN 1
  ELSE LET h == Pow31(k \div 2)
       IN IF k % 2 = 0 THEN (h * h) % DigestMod ELSE (((h * h) % DigestMod) * 31) % DigestMod

RECURSIVE Md5Range(_, _, _)
Md5Range(s, lo, hi) ==
  IF lo > hi THEN 0
  ELSE IF lo = hi THEN OrdOf[s[lo]]
  ELSE LET mid == (lo + hi) \div 2
       IN (Md5Range(s, lo, mid) * Pow31(hi - mid) + Md5Range(s, mid + 1, hi)) % DigestMod

Md5(s) == Md5Range(s, 1, Len(s))

\* hexdigest()[:8]: the leading digits of the digest (the low 4 bits dropped).
Md5Prefix(s) == Md5(s) \div 16

-----------------------------------------------------------------------------
(* The parsed document: BeautifulSoup nodes *)

\* A NavigableString.
TextNode(t) == [tag |-> <<>>, classes |-> <<>>, id |-> <<>>, attrs |-> <<>>, text |-> t, kids |-> <<>>]

\* A Tag: name, class list, id, the other attributes as written, children.
Tag(name, classes, id, attrs, kids) ==
  [tag |-> name, classes |-> classes, id |-> id, attrs |-> attrs, text |-> <<>>, kids |-> kids]

IsTag(n) == n.tag # <<>>

VoidTags == {<<"i","m","g">>, <<"b","r">>, <<"h","r">>, <<"i","n","p","u","t">>}

\* str(element): the serialized markup, attributes in the order class, id, others.
RECURSIVE Serialize(_)
RECURSIVE SerializeKids(_, _)
Serialize(n) ==
  IF ~IsTag(n) THEN n.text
  ELSE LET open == <<"<">> \o n.tag
                   \o (IF n.classes # <<>> THEN <<" ","c","l","a","s","s","=","\"">> \o Join(n.classes, <<" ">>) \o <<"\"">> ELSE <<>>)
                   \o (IF n.id # <<>> THEN <<" ","i","d","=","\"">> \o n.id \o <<"\"">> ELSE <<>>)
                   \o n.attrs
       IN IF n.tag \in VoidTags THEN open \o <<"/",">">>
          ELSE open \o <<">">> \o SerializeKids(n.kids, 1) \o <<"<","/">> \o n.tag \o <<">">>

SerializeKids(kids, i) ==
  IF i > Len(kids) THEN <<>> ELSE Serialize(kids[i]) \o SerializeKids(kids, i + 1)

\* element.find_all(): every descendant tag, in document order.
RECURSIVE FindAllFrom(_, _)
FindAllFrom(kids, i) ==
  IF i > Len(kids) THEN <<>>
  ELSE (IF IsTag(kids[i]) THEN <<kids[i]>> \o FindAllFrom(kids[i].kids, 1) ELSE <<>>)
       \o FindAllFrom(kids, i + 1)

FindAll(e) == FindAllFrom(e.kids, 1)

\* element.get_text(strip=True): the stripped strings of the subtree, joined.
RECURSIVE GetTextFrom(_, _)
GetTextFrom(kids, i) ==
  IF i > Len(kids) THEN <<>>
  ELSE (IF IsTag(kids[i]) THEN GetTextFrom(kids[i].kids, 1) ELSE Strip(kids[i].text))
       \o GetTextFrom(kids, i + 1)

GetText(e) == GetTextFrom(e.kids, 1)

\* Every tag of a document in document order, each with its parent
\* (what a CSS selector with a child combinator needs).
RECURSIVE WalkFrom(_, _, _)
WalkFrom(kids, i, parent) ==
  IF i > Len(kids) THEN <<>>
  ELSE (IF IsTag(kids[i])
        THEN <<[e |-> kids[i], parent |-> parent]>> \o WalkFrom(kids[i].kids, 1, kids[i])
        ELSE <<>>)
       \o WalkFrom(kids, i + 1, parent)

Walk(soup) == WalkFrom(soup.kids, 1, soup)

-----------------------------------------------------------------------------
(* The input documents *)

Link(href, text) == Tag(<<"a">>, <<>>, <<>>, <<" ","h","r","e","f","=","\"">> \o href \o <<"\"">>, <<TextNode(text)>>)

Para(text) == Tag(<<"p">>, <<>>, <<>>, <<>>, <<TextNode(text)>>)

Img(src) == Tag(<<"i","m","g">>, <<>>, <<>>, <<" ","s","r","c","=","\"">> \o src \o <<"\"">>, <<>>)

\* <nav> with 3 child links and 40 characters of text
NavEl ==
  Tag(<<"n","a","v">>, <<>>, <<>>, <<>>,
      <<Link(<<"/","h","o","m","e">>, <<"H","o","m","e"," ","p","a","g","e">>), Link(<<"/","v","e","n","u","e">>, <<"O","u","r"," ","b","a","r","n"," ","v","e","n","u","e">>),
        Link(<<"/","b","o","o","k">>, <<"B","o","o","k"," ","y","o","u","r"," ","d","a","y"," ","n","o","w">>)>>)

\* <div class="hero"> with an image and 50 characters of text
HeroEl ==
  Tag(<<"d","i","v">>, <<<<"h","e","r","o">>>>, <<>>, <<>>,
      <<Img(<<"b","a","r","n",".","j","p","g">>), Para(<<"W","h","e","r","e"," ","r","u","s","t","i","c"," ","c","h","a","r","m"," ","m","e","e","t","s"," ","a"," ","t","i","m","e","l","e","s","s"," ","c","o","u","n","t","r","y"," ","e","s","t","a","t","e">>)>>)

\* <footer> with a single descendant
FooterEl ==
  Tag(<<"f","o","o","t","e","r">>, <<>>, <<>>, <<>>, <<Para(<<"C","o","p","y","r","i","g","h","t"," ","R","u","m"," ","R","i","v","e","r"," ","B","a","r","n"," ","a","n","d"," ","V","i","n","e","y","a","r","d"," ","2","0","2","4">>)>>)

\* <section> holding text only, no descendant tag
SectionEl ==
  Tag(<<"s","e","c","t","i","o","n">>, <<>>, <<>>, <<>>, <<TextNode(<<"C","e","l","e","b","r","a","t","e"," ","y","o","u","r"," ","w","e","d","d","i","n","g"," ","d","a","y"," ","i","n"," ","t","h","e"," ","c","o","u","n","t","r","y","s","i","d","e">>)>>)

\* an element that a class pattern, an id pattern and a tag pattern all select
StoryEl ==
  Tag(<<"s","e","c","t","i","o","n">>, <<<<"h","e","r","o","-","b","a","n","n","e","r">>>>, <<"a","b","o","u","t">>, <<>>,
      <<Tag(<<"h","2">>, <<>>, <<>>, <<>>, <<TextNode(<<"O","u","r"," ","s","t","o","r","y">>)>>),
        Para(<<"A"," ","f","a","m","i","l","y"," ","f","a","r","m"," ","t","u","r","n","e","d"," ","v","i","n","e","y","a","r","d"," ","s","i","n","c","e"," ","1","9","8","5">>)>>)

\* two elements with the same tag, class list and text, one with an image
BoxImgEl ==
  Tag(<<"d","i","v">>, <<<<"c","o","n","t","a","i","n","e","r">>>>, <<>>, <<>>,
      <<Img(<<"h","i","l","l","s",".","j","p","g">>), TextNode(<<"R","o","l","l","i","n","g"," ","h","i","l","l","s"," ","a","n","d"," ","w","i","d","e"," ","o","p","e","n"," ","s","k","i","e","s">>)>>)

BoxEl ==
  Tag(<<"d","i","v">>, <<<<"c","o","n","t","a","i","n","e","r">>>>, <<>>, <<>>, <<TextNode(<<"R","o","l","l","i","n","g"," ","h","i","l","l","s"," ","a","n","d"," ","w","i","d","e"," ","o","p","e","n"," ","s","k","i","e","s">>)>>)

\* an element no selector or pattern of any script matches
PlainEl == Tag(<<"d","i","v">>, <<<<"b","o","x">>>>, <<>>, <<>>, <<Para(<<"J","u","s","t"," ","a"," ","p","l","a","i","n"," ","p","a","r","a","g","r","a","p","h"," ","o","f"," ","w","o","r","d","s">>)>>)

\* <header> whose text is shorter than every minimum text length
ShortEl == Tag(<<"h","e","a","d","e","r">>, <<>>, <<>>, <<>>, <<TextNode(<<"R","u","m"," ","R","i","v","e","r">>)>>)

Soup(kids) == Tag(<<"[","d","o","c","u","m","e","n","t","]">>, <<>>, <<>>, <<>>, kids)

\* The files a directory may hold: name and parsed content.
Library ==
  { [name |-> <<"a","b","o","u","t",".","h","t","m","l">>, soup |-> Soup(<<NavEl>>)],
    [name |-> <<"i","n","d","e","x",".","h","t","m","l">>, soup |-> Soup(<<HeroEl>>)],
    [name |-> <<"v","e","n","u","e",".","h","t","m","l">>, soup |-> Soup(<<NavEl, FooterEl, HeroEl, HeroEl>>)],
    [name |-> <<"s","t","o","r","y",".","h","t","m","l">>, soup |-> Soup(<<StoryEl, SectionEl>>)],
    [name |-> <<"p","a","i","r",".","h","t","m","l">>, soup |-> Soup(<<BoxImgEl, BoxEl>>)],
    [name |-> <<"p","l","a","i","n",".","h","t","m","l">>, soup |-> Soup(<<PlainEl>>)],
    [name |-> <<"c","o","m","p","o","n","e","n","t","-","l","i","b","r","a","r","y","-","t","a","i","l","w","i","n","d",".","h","t","m","l">>, soup |-> Soup(<<HeroEl>>)],
    \* a short <header>, then six <section class="section"> elements holding
    \* text only, each of more than 100 characters of markup: more than any
    \* selector's limit
    [name |-> <<"m","a","n","y",".","h","t","m","l">>,
     soup |-> Soup(<<ShortEl>> \o [k \in 1..6 |->
                     Tag(<<"s","e","c","t","i","o","n">>, <<<<"s","e","c","t","i","o","n">>>>, <<>>, <<>>,
                         <<TextNode(<<"P","a","r","t"," ">> \o <<Ascii[49 + k]>> \o <<" ","o","f"," ","t","h","e"," ","p","l","a","n"," ","t","o"," ","c","o","n","t","a","c","t"," ","t","h","e"," ","b","a","r","n",","," ","t","h","e"," ","g","a","r","d","e","n","s",","," ","t","h","e"," ","v","i","n","e","y","a","r","d"," ","a","n","d"," ","t","h","e"," ","r","i","v","e","r"," ","w","a","l","k">>)>>)])],
    \* the catalog an earlier run of ComponentExtractor wrote
    [name |-> <<"a","u","t","o","-","c","o","m","p","o","n","e","n","t","-","l","i","b","r","a","r","y",".","h","t","m","l">>, soup |-> Soup(<<HeroEl>>)] }

\* The largest number of files in the directory.
MaxFiles == 2

\* os.listdir: the files of the directory, in an arbitrary order.
Listings ==
  UNION { { l \in [1..n -> Library] : \A i, j \in 1..n : i # j => l[i] # l[j] } : n \in 0..MaxFiles }

-----------------------------------------------------------------------------
(* Selection: soup.select(css) and soup.find_all *)

\* A CSS selector of the scripts: tag name (<<>>: any), class token (.x),
\* substring of the class attribute ([class*="x"]), and the parent's tag and
\* class token when the selector is `parent > child`.
Css(tag, cls, sub) == [tag |-> tag, cls |-> cls, sub |-> sub, child |-> FALSE, ptag |-> <<>>, pcls |-> <<>>]

CssChild(ptag, pcls, tag) == [tag |-> tag, cls |-> <<>>, sub |-> <<>>, child |-> TRUE, ptag |-> ptag, pcls |-> pcls]

HasClass(e, cls) == \E i \in 1..Len(e.classes) : e.classes[i] = cls

CssMatches(sel, n) ==
  /\ sel.tag # <<>> => n.e.tag = sel.tag
  /\ sel.cls # <<>> => HasClass(n.e, sel.cls)
  /\ sel.sub # <<>> => (n.e.classes # <<>> /\ Contains(Join(n.e.classes, <<" ">>), sel.sub))
  /\ sel.child => /\ n.parent.tag = sel.ptag
                  /\ sel.pcls # <<>> => HasClass(n.parent, sel.pcls)

\* soup.select(sel): the matching elements in document order
Select(soup, sel) ==
  LET hits == SelectSeq(Walk(soup), LAMBDA n : CssMatches(sel, n))
  IN [i \in 1..Len(hits) |-> hits[i].e]

\* [select(s) for s in selectors], without the slice
RECURSIVE SelectAllUnlimited(_, _, _, _)
SelectAllUnlimited(soup, selectors, limit, i) ==
  IF i > Len(selectors) THEN <<>>
  ELSE Select(soup, selectors[i]) \o SelectAllUnlimited(soup, selectors, limit, i + 1)

\* [select(s)[:limit] for s in selectors], flattened in selector order
RECURSIVE SelectAll(_, _, _, _)
SelectAll(soup, selectors, limit, i) ==
  IF i > Len(selectors) THEN <<>>
  ELSE Slice(Select(soup, selectors[i]), limit) \o SelectAll(soup, selectors, limit, i + 1)

\* Every tag of every document of the library, and per tag its markup
\* str(element), the digest of the markup and its text: computed once.
LibraryTags == UNION { {Walk(f.soup)[i].e : i \in 1..Len(Walk(f.soup))} : f \in Library }

MarkupOf == [e \in LibraryTags |-> Serialize(e)]

DigestOf == [e \in LibraryTags |-> Md5(Serialize(e))]

TextOf == [e \in LibraryTags |-> GetText(e)]

\* str(element)
Str(element) == MarkupOf[element]

\* hashlib.md5(str(element).encode()).hexdigest()
ElementHash(element) == DigestOf[element]

\* hashlib.md5(str(element).encode()).hexdigest()[:8]
ElementHashPrefix(element) == DigestOf[element] \div 16

\* element.get_text(strip=True)
Text(element) == TextOf[element]

-----------------------------------------------------------------------------
(* extract_tailwind_style.py and migrate_to_histoire.py *)

TailwindSelectors ==
  <<Css(<<"s","e","c","t","i","o","n">>, <<>>, <<>>), Css(<<"h","e","a","d","e","r">>, <<>>, <<>>), Css(<<"f","o","o","t","e","r">>, <<>>, <<>>),
    Css(<<>>, <<>>, <<"h","e","r","o">>), Css(<<>>, <<>>, <<"f","e","a","t","u","r","e">>), Css(<<>>, <<>>, <<"t","e","s","t","i","m","o","n","i","a","l">>),
    Css(<<>>, <<>>, <<"p","r","i","c","i","n","g">>), Css(<<>>, <<>>, <<"c","t","a">>), Css(<<"n","a","v">>, <<>>, <<>>),
    Css(<<"d","i","v">>, <<"c","o","n","t","a","i","n","e","r">>, <<>>), Css(<<"d","i","v">>, <<>>, <<"s","e","c","t","i","o","n">>)>>

HistoireSelectors ==
  <<Css(<<"s","e","c","t","i","o","n">>, <<>>, <<>>), Css(<<"h","e","a","d","e","r">>, <<>>, <<>>), Css(<<"f","o","o","t","e","r">>, <<>>, <<>>),
    Css(<<"n","a","v">>, <<>>, <<>>),
    Css(<<"d","i","v">>, <<"h","e","r","o">>, <<>>), Css(<<"d","i","v">>, <<"f","e","a","t","u","r","e">>, <<>>), Css(<<"d","i","v">>, <<"t","e","s","t","i","m","o","n","i","a","l">>, <<>>),
    Css(<<"d","i","v">>, <<"p","r","i","c","i","n","g">>, <<>>), Css(<<"d","i","v">>, <<"c","t","a">>, <<>>), Css(<<"d","i","v">>, <<"c","o","n","t","a","c","t">>, <<>>),
    Css(<<>>, <<>>, <<"h","e","r","o">>), Css(<<>>, <<>>, <<"f","e","a","t","u","r","e">>), Css(<<>>, <<>>, <<"t","e","s","t","i","m","o","n","i","a","l">>),
    Css(<<>>, <<>>, <<"p","r","i","c","i","n","g">>), Css(<<>>, <<>>, <<"c","t","a">>), Css(<<>>, <<>>, <<"b","a","n","n","e","r">>),
    CssChild(<<"d","i","v">>, <<"c","o","n","t","a","i","n","e","r">>, <<"d","i","v">>), CssChild(<<"m","a","i","n">>, <<>>, <<"d","i","v">>)>>

\* soup.select(selector)[:5]
TailwindLimit == 5

\* soup.select(selector)[:3]
HistoireLimit == 3

\* len(text_content) < 20
TailwindMinText == 20

\* len(text_content) < 30
HistoireMinText == 30

\* is_valid_component(element) with self.seen_hashes = seen: the answer and the
\* seen_hashes it leaves.
TailwindIsValidComponent(element, seen) ==
  IF Len(Text(element)) < TailwindMinText THEN [ok |-> FALSE, seen |-> seen]
  ELSE IF ElementHash(element) \in seen THEN [ok |-> FALSE, seen |-> seen]
  ELSE [ok |-> TRUE, seen |-> seen \cup {ElementHash(element)}]

\* is_valid_component without the seen_hashes test
HistoireIsValidComponentNoSeen(element, seen) ==
  [ok |-> Len(Text(element)) >= HistoireMinText, seen |-> seen \cup {ElementHash(element)}]

\* is_valid_component with the hash recorded before the length test
HistoireIsValidComponentHashFirst(element, seen) ==
  IF ElementHash(element) \in seen THEN [ok |-> FALSE, seen |-> seen]
  ELSE [ok |-> Len(Text(element)) >= HistoireMinText, seen |-> seen \cup {ElementHash(element)}]

HistoireIsValidComponent(element, seen) ==
  IF Len(Text(element)) < HistoireMinText THEN [ok |-> FALSE, seen |-> seen]
  ELSE IF ElementHash(element) \in seen THEN [ok |-> FALSE, seen |-> seen]
  ELSE [ok |-> TRUE, seen |-> seen \cup {ElementHash(element)}]

\* element.find_all('img', limit=3) is non-empty
HasImg(element) == \E i \in 1..Len(FindAll(element)) : FindAll(element)[i].tag = <<"i","m","g">>

TailwindGetComponentCategory(element) ==
  LET classes == Join(element.classes, <<" ">>)
      tag == element.tag
      text == Lower(Text(element))
  IN IF tag = <<"n","a","v">> \/ Contains(classes, <<"n","a","v">>) THEN <<"N","a","v","i","g","a","t","i","o","n">>
     ELSE IF tag = <<"h","e","a","d","e","r">> \/ Contains(classes, <<"h","e","a","d","e","r">>) \/ Contains(classes, <<"h","e","r","o">>) THEN <<"H","e","r","o","e","s">>
     ELSE IF tag = <<"f","o","o","t","e","r">> \/ Contains(classes, <<"f","o","o","t","e","r">>) THEN <<"F","o","o","t","e","r","s">>
     ELSE IF Contains(classes, <<"t","e","s","t","i","m","o","n","i","a","l">>) \/ Contains(text, <<"r","e","v","i","e","w">>) THEN <<"T","e","s","t","i","m","o","n","i","a","l","s">>
     ELSE IF Contains(classes, <<"p","r","i","c","i","n","g">>) \/ Contains(text, <<"p","r","i","c","e">>) THEN <<"P","r","i","c","i","n","g">>
     ELSE IF Contains(classes, <<"f","e","a","t","u","r","e">>) \/ Contains(classes, <<"s","e","r","v","i","c","e">>) THEN <<"F","e","a","t","u","r","e","s">>
     ELSE IF Contains(classes, <<"c","t","a">>) \/ Contains(text, <<"c","a","l","l","-","t","o","-","a","c","t","i","o","n">>) THEN <<"C","T","A"," ","S","e","c","t","i","o","n","s">>
     ELSE IF Contains(classes, <<"c","o","n","t","a","c","t">>) \/ Contains(text, <<"c","o","n","t","a","c","t">>) THEN <<"C","o","n","t","a","c","t">>
     ELSE IF Contains(classes, <<"g","a","l","l","e","r","y">>) \/ HasImg(element) THEN <<"C","o","n","t","e","n","t"," ","S","e","c","t","i","o","n","s">>
     ELSE <<"P","a","g","e"," ","S","e","c","t","i","o","n","s">>

\* get_component_category with the 'hero' in classes test of the second rule left out
HistoireGetComponentCategoryNoHeroClass(element) ==
  LET classes == Join(element.classes, <<" ">>)
      tag == element.tag
      text == Lower(Text(element))
  IN IF tag = <<"n","a","v">> \/ Contains(classes, <<"n","a","v">>) \/ Contains(classes, <<"n","a","v","i","g","a","t","i","o","n">>) THEN <<"n","a","v","i","g","a","t","i","o","n">>
     ELSE IF \/ tag = <<"h","e","a","d","e","r">> \/ Contains(classes, <<"h","e","a","d","e","r">>)
             \/ Contains(Slice(text, 100), <<"h","e","r","o">>) THEN <<"h","e","r","o","e","s">>
     ELSE IF tag = <<"f","o","o","t","e","r">> \/ Contains(classes, <<"f","o","o","t","e","r">>) THEN <<"f","o","o","t","e","r","s">>
     ELSE IF \/ Contains(classes, <<"t","e","s","t","i","m","o","n","i","a","l">>) \/ Contains(text, <<"t","e","s","t","i","m","o","n","i","a","l">>)
             \/ Contains(text, <<"r","e","v","i","e","w">>) THEN <<"t","e","s","t","i","m","o","n","i","a","l","s">>
     ELSE IF Contains(classes, <<"p","r","i","c","i","n","g">>) \/ Contains(text, <<"p","r","i","c","e">>) \/ Contains(text, <<"p","l","a","n">>) THEN <<"p","r","i","c","i","n","g">>
     ELSE IF \/ Contains(classes, <<"f","e","a","t","u","r","e">>) \/ Contains(classes, <<"s","e","r","v","i","c","e">>)
             \/ Contains(Slice(text, 100), <<"f","e","a","t","u","r","e">>) THEN <<"f","e","a","t","u","r","e","s">>
     ELSE IF \/ Contains(classes, <<"c","t","a">>) \/ Contains(text, <<"c","a","l","l","-","t","o","-","a","c","t","i","o","n">>)
             \/ Contains(text, <<"g","e","t"," ","s","t","a","r","t","e","d">>) THEN <<"c","t","a">>
     ELSE IF Contains(classes, <<"c","o","n","t","a","c","t">>) \/ Contains(text, <<"c","o","n","t","a","c","t">>) \/ Contains(text, <<"e","m","a","i","l">>) THEN <<"c","o","n","t","a","c","t">>
     ELSE IF \/ Contains(classes, <<"b","l","o","g">>) \/ Contains(classes, <<"a","r","t","i","c","l","e">>)
             \/ Contains(classes, <<"p","o","s","t">>) THEN <<"c","o","n","t","e","n","t">>
     ELSE <<"c","o","n","t","e","n","t">>

\* get_component_category with the 'contact' rule tested first
HistoireGetComponentCategoryContactFirst(element) ==
  LET classes == Join(element.classes, <<" ">>)
      tag == element.tag
      text == Lower(Text(element))
  IN IF Contains(classes, <<"c","o","n","t","a","c","t">>) \/ Contains(text, <<"c","o","n","t","a","c","t">>) \/ Contains(text, <<"e","m","a","i","l">>) THEN <<"c","o","n","t","a","c","t">>
     ELSE IF tag = <<"n","a","v">> \/ Contains(classes, <<"n","a","v">>) \/ Contains(classes, <<"n","a","v","i","g","a","t","i","o","n">>) THEN <<"n","a","v","i","g","a","t","i","o","n">>
     ELSE IF \/ tag = <<"h","e","a","d","e","r">> \/ Contains(classes, <<"h","e","a","d","e","r">>) \/ Contains(classes, <<"h","e","r","o">>)
             \/ Contains(Slice(text, 100), <<"h","e","r","o">>) THEN <<"h","e","r","o","e","s">>
     ELSE IF tag = <<"f","o","o","t","e","r">> \/ Contains(classes, <<"f","o","o","t","e","r">>) THEN <<"f","o","o","t","e","r","s">>
     ELSE IF \/ Contains(classes, <<"t","e","s","t","i","m","o","n","i","a","l">>) \/ Contains(text, <<"t","e","s","t","i","m","o","n","i","a","l">>)
             \/ Contains(text, <<"r","e","v","i","e","w">>) THEN <<"t","e","s","t","i","m","o","n","i","a","l","s">>
     ELSE IF Contains(classes, <<"p","r","i","c","i","n","g">>) \/ Contains(text, <<"p","r","i","c","e">>) \/ Contains(text, <<"p","l","a","n">>) THEN <<"p","r","i","c","i","n","g">>
     ELSE IF \/ Contains(classes, <<"f","e","a","t","u","r","e">>) \/ Contains(classes, <<"s","e","r","v","i","c","e">>)
             \/ Contains(Slice(text, 100), <<"f","e","a","t","u","r","e">>) THEN <<"f","e","a","t","u","r","e","s">>
     ELSE IF \/ Contains(classes, <<"c","t","a">>) \/ Contains(text, <<"c","a","l","l","-","t","o","-","a","c","t","i","o","n">>)
             \/ Contains(text, <<"g","e","t"," ","s","t","a","r","t","e","d">>) THEN <<"c","t","a">>
     ELSE IF \/ Contains(classes, <<"b","l","o","g">>) \/ Contains(classes, <<"a","r","t","i","c","l","e">>)
             \/ Contains(classes, <<"p","o","s","t">>) THEN <<"c","o","n","t","e","n","t">>
     ELSE <<"c","o","n","t","e","n","t">>

HistoireGetComponentCategory(element) ==
  LET classes == Join(element.classes, <<" ">>)
      tag == element.tag
      text == Lower(Text(element))
  IN IF tag = <<"n","a","v">> \/ Contains(classes, <<"n","a","v">>) \/ Contains(classes, <<"n","a","v","i","g","a","t","i","o","n">>) THEN <<"n","a","v","i","g","a","t","i","o","n">>
     ELSE IF \/ tag = <<"h","e","a","d","e","r">> \/ Contains(classes, <<"h","e","a","d","e","r">>) \/ Contains(classes, <<"h","e","r","o">>)
             \/ Contains(Slice(text, 100), <<"h","e","r","o">>) THEN <<"h","e","r","o","e","s">>
     ELSE IF tag = <<"f","o","o","t","e","r">> \/ Contains(classes, <<"f","o","o","t","e","r">>) THEN <<"f","o","o","t","e","r","s">>
     ELSE IF \/ Contains(classes, <<"t","e","s","t","i","m","o","n","i","a","l">>) \/ Contains(text, <<"t","e","s","t","i","m","o","n","i","a","l">>)
             \/ Contains(text, <<"r","e","v","i","e","w">>) THEN <<"t","e","s","t","i","m","o","n","i","a","l","s">>
     ELSE IF Contains(classes, <<"p","r","i","c","i","n","g">>) \/ Contains(text, <<"p","r","i","c","e">>) \/ Contains(text, <<"p","l","a","n">>) THEN <<"p","r","i","c","i","n","g">>
     ELSE IF \/ Contains(classes, <<"f","e","a","t","u","r","e">>) \/ Contains(classes, <<"s","e","r","v","i","c","e">>)
             \/ Contains(Slice(text, 100), <<"f","e","a","t","u","r","e">>) THEN <<"f","e","a","t","u","r","e","s">>
     ELSE IF \/ Contains(classes, <<"c","t","a">>) \/ Contains(text, <<"c","a","l","l","-","t","o","-","a","c","t","i","o","n">>)
             \/ Contains(text, <<"g","e","t"," ","s","t","a","r","t","e","d">>) THEN <<"c","t","a">>
     ELSE IF Contains(classes, <<"c","o","n","t","a","c","t">>) \/ Contains(text, <<"c","o","n","t","a","c","t">>) \/ Contains(text, <<"e","m","a","i","l">>) THEN <<"c","o","n","t","a","c","t">>
     ELSE IF \/ Contains(classes, <<"b","l","o","g">>) \/ Contains(classes, <<"a","r","t","i","c","l","e">>)
             \/ Contains(classes, <<"p","o","s","t">>) THEN <<"c","o","n","t","e","n","t">>
     ELSE <<"c","o","n","t","e","n","t">>

\* A character re.sub(r'[^\w\s]', '', name) keeps: a letter, a digit, '_' or
\* a space.
IsWordOrSpace(c) ==
  OrdOf[c] \in (48..57) \cup (65..90) \cup (97..122) \cup {95, 32}

\* s.split(): the runs of s between spaces
RECURSIVE Words(_)
Words(s) ==
  IF LStrip(s) = <<>> THEN <<>>
  ELSE LET t == LStrip(s)
           n == CHOOSE i \in 1..(Len(t) + 1) :
                  (i = Len(t) + 1 \/ t[i] = " ") /\ \A j \in 1..(i - 1) : t[j] # " "
       IN <<SubSeq(t, 1, n - 1)>> \o Words(SubSeq(t, n, Len(t)))

\* word.capitalize() of a non-empty string
Capitalize(word) == <<UpperChar(word[1])>> \o Lower(Tail(word))

\* sanitize_component_name(name): the first three words, capitalized and joined
SanitizeComponentName(name) ==
  LET words == Slice(Words(SelectSeq(name, IsWordOrSpace)), 3)
  IN Join([i \in 1..Len(words) |-> Capitalize(words[i])], <<>>)

\* str(n) of a natural number
RECURSIVE IntStr(_)
IntStr(n) == IF n < 10 THEN <<Ascii[17 + n]>> ELSE IntStr(n \div 10) \o <<Ascii[17 + (n % 10)]>>

\* s.rstrip('s')
RECURSIVE RStripS(_)
RStripS(s) == IF s # <<>> /\ s[Len(s)] = "s" THEN RStripS(SubSeq(s, 1, Len(s) - 1)) ELSE s

\* The name get_component_name builds when no heading gives one:
\* the category, the counts of images (at most 5) and of 'btn' links and
\* buttons when there are any, 'Component' when there are none, and the index.
DescriptiveName(category, img_count, btn_count, index) ==
  RStripS(Capitalize(category))
    \o (IF img_count > 0 THEN IntStr(img_count) \o <<"I","m","g">> ELSE <<>>)
    \o (IF btn_count > 0 THEN IntStr(btn_count) \o <<"B","t","n">> ELSE <<>>)
    \o (IF img_count = 0 /\ btn_count = 0 THEN <<"C","o","m","p","o","n","e","n","t">> ELSE <<>>)
    \o <<"_">> \o IntStr(index)

\* get_component_name without the index at the end of the name
GetComponentNameNoIndex(element, category, index) ==
  LET headings == SelectSeq(FindAll(element), LAMBDA e : e.tag \in {<<"h","1">>, <<"h","2">>, <<"h","3">>})
  IN IF headings # <<>> /\ SanitizeComponentName(GetText(Head(headings))) # <<>>
     THEN SanitizeComponentName(GetText(Head(headings)))
     ELSE RStripS(Capitalize(category)) \o <<"C","o","m","p","o","n","e","n","t">>

\* get_component_name(element, category, index)
GetComponentName(element, category, index) ==
  LET headings == SelectSeq(FindAll(element), LAMBDA e : e.tag \in {<<"h","1">>, <<"h","2">>, <<"h","3">>})
  IN IF headings # <<>> /\ SanitizeComponentName(GetText(Head(headings))) # <<>>
     THEN SanitizeComponentName(GetText(Head(headings))) \o <<"_">> \o IntStr(index)
     ELSE DescriptiveName(category,
                          Min(5, Len(SelectSeq(FindAll(element), LAMBDA e : e.tag = <<"i","m","g">>))),
                          Len(SelectSeq(FindAll(element),
                                        LAMBDA e : e.tag \in {<<"b","u","t","t","o","n">>, <<"a">>}
                                                   /\ \E i \in 1..Len(e.classes) : Contains(e.classes[i], <<"b","t","n">>))),
                          index)

\* self.categories[category] with component_data put in front
CategoriesPrepend(cats, category, component_data) ==
  [k \in (DOMAIN cats) \cup {category} |->
     IF k = category
     THEN (IF category \in DOMAIN cats THEN <<component_data>> \o cats[category] ELSE <<component_data>>)
     ELSE cats[k]]

\* self.categories[category] = [component_data] in place of the append
CategoriesAppendReplacing(cats, category, component_data) ==
  [k \in (DOMAIN cats) \cup {category} |-> IF k = category THEN <<component_data>> ELSE cats[k]]

\* self.categories[category].append(component_data) on a defaultdict(list)
CategoriesAppend(cats, category, component_data) ==
  [k \in (DOMAIN cats) \cup {category} |->
     IF k = category
     THEN (IF category \in DOMAIN cats THEN Append(cats[category], component_data) ELSE <<component_data>>)
     ELSE cats[k]]

\* The selectors, limit, validity test and classifier of the script in use.
SelectorsOf(s) == IF s = "tailwind" THEN TailwindSelectors ELSE HistoireSelectors

LimitOf(s) == IF s = "tailwind" THEN TailwindLimit ELSE HistoireLimit

IsValidComponent(s, element, seen) ==
  IF s = "tailwind" THEN TailwindIsValidComponent(element, seen)
  ELSE HistoireIsValidComponent(element, seen)

GetComponentCategory(s, element) ==
  IF s = "tailwind" THEN TailwindGetComponentCategory(element)
  ELSE HistoireGetComponentCategory(element)

\* The component_data of HistoireMigrator.process_component, once the
\* category is known.
HistoireComponentData(element, file_name, category, index) ==
  [name |-> GetComponentName(element, category, index), category |-> category,
   source |-> file_name, element |-> element, index |-> index]

\* process_component(element, file_name): the component record. 'element'
\* stands for the 'html' field, the markup of the element; 'index' is the
\* value of self.component_count that ends the name HistoireMigrator gives.
ProcessComponent(s, element, file_name, index) ==
  IF s = "histoire"
  THEN HistoireComponentData(element, file_name, GetComponentCategory(s, element), index)
  ELSE [category |-> GetComponentCategory(s, element), source |-> file_name, element |-> element]

\* The first loop of extract_from_file: is_valid_component on the candidates
\* i, i+1, ... up to, not including, candidate `stop`.
RECURSIVE ValidateFrom(_, _, _, _, _, _)
RECURSIVE ValidateNext(_, _, _, _, _, _)
ValidateFrom(s, cands, i, stop, seen, valid) ==
  IF i > Len(cands) \/ i = stop THEN [seen |-> seen, valid |-> valid]
  ELSE ValidateNext(s, cands, i, stop, IsValidComponent(s, cands[i], seen), valid)

\* "if self.is_valid_component(element): components.append(element)", r
\* being what is_valid_component answered for candidate i, and on to i + 1
ValidateNext(s, cands, i, stop, r, valid) ==
  ValidateFrom(s, cands, i + 1, stop, r.seen, IF r.ok THEN Append(valid, cands[i]) ELSE valid)

\* The second loop: process_component on valid[i], ..., valid[last], count
\* being self.component_count before the loop.
RECURSIVE ProcessFrom(_, _, _, _, _, _, _, _)
RECURSIVE ProcessNext(_, _, _, _, _, _, _, _, _)
ProcessFrom(s, valid, i, last, file_name, comps, cats, count) ==
  IF i > last THEN [components |-> comps, categories |-> cats]
  ELSE ProcessNext(s, valid, i, last, file_name, comps, cats, count,
                   ProcessComponent(s, valid[i], file_name, count + i))

\* The two appends that end process_component, c being component_data, and
\* on to valid[i + 1]
ProcessNext(s, valid, i, last, file_name, comps, cats, count, c) ==
  ProcessFrom(s, valid, i + 1, last, file_name, Append(comps, c),
              CategoriesAppend(cats, c.category, c), count)

\* extract_from_file(file_path, file_name) in the state st. The body of the
\* try block is a sequence of steps: step 1 reads and parses the file, step
\* 1+i is is_valid_component on candidate i, step 1+n+k is process_component
\* on the k-th valid element. `fail` is the step that raises (0: none); the
\* except clause then prints the error and the method returns.
ExtractCandidatesOf ==
  [s \in {"tailwind", "histoire"} |-> [f \in Library |-> SelectAll(f.soup, SelectorsOf(s), LimitOf(s), 1)]]

ExtractCandidates(s, file) == ExtractCandidatesOf[s][file]

ExtractSteps(s, file, seen) ==
  1 + Len(ExtractCandidates(s, file))
    + Len(ValidateFrom(s, ExtractCandidates(s, file), 1, 0, seen, <<>>).valid)

\* Of n candidates, the candidate at which the first loop stops (0: none).
ValidateStop(fail, n) == IF fail = 0 \/ fail > n + 1 THEN 0 ELSE fail - 1

\* Of m valid elements, how many process_component calls return.
ProcessDone(fail, n, m) == IF fail = 0 THEN m ELSE IF fail > n + 1 THEN fail - n - 2 ELSE 0

\* How many process_component calls start: each adds 1 to component_count.
ProcessStarted(fail, n, m) ==
  IF fail > n + 1 THEN ProcessDone(fail, n, m) + 1 ELSE ProcessDone(fail, n, m)

\* The state extract_from_file leaves: v is what the first loop gave, p
\* what the second loop gave.
ExtractResult(s, file, fail, st, n, v, p) ==
  IF fail = 1 THEN [st EXCEPT !.log = Append(@, file.name)]
  ELSE [components |-> p.components,
        categories |-> p.categories,
        seen_hashes |-> v.seen,
        component_count |-> IF s = "histoire"
                            THEN st.component_count + ProcessStarted(fail, n, Len(v.valid))
                            ELSE st.component_count,
        log |-> IF fail = 0 THEN st.log ELSE Append(st.log, file.name)]

\* The second loop of extract_from_file, after the first loop gave v.
ExtractProcess(s, file, fail, st, n, v) ==
  ExtractResult(s, file, fail, st, n, v,
                ProcessFrom(s, v.valid, 1, ProcessDone(fail, n, Len(v.valid)), file.name,
                            st.components, st.categories, st.component_count))

\* The first loop of extract_from_file, over the candidates cands.
ExtractValidate(s, file, fail, st, cands) ==
  ExtractProcess(s, file, fail, st, Len(cands),
                 ValidateFrom(s, cands, 1, ValidateStop(fail, Len(cands)), st.seen_hashes, <<>>))

ExtractFromFile(s, file, fail, st) ==
  ExtractValidate(s, file, fail, st, ExtractCandidates(s, file))

\* The files extract_all_components keeps of os.listdir, in listing order.
TailwindKeeps(f) == EndsWith(f.name, <<".","h","t","m","l">>) /\ f.name # <<"c","o","m","p","o","n","e","n","t","-","l","i","b","r","a","r","y","-","t","a","i","l","w","i","n","d",".","h","t","m","l">>

HistoireKeeps(f) ==
  /\ EndsWith(f.name, <<".","h","t","m","l">>)
  /\ ~(\/ StartsWith(f.name, <<"c","o","m","p","o","n","e","n","t","-","l","i","b","r","a","r","y">>) \/ StartsWith(f.name, <<"t","a","i","l","w","i","n","d">>)
       \/ StartsWith(f.name, <<"b","a","r","n","-","v","e","n","u","e">>))

-----------------------------------------------------------------------------
(* scan_directory of extract_components*.py: sorted(html_files) *)

RECURSIVE InsertByName(_, _)
InsertByName(sorted, f) ==
  IF sorted = <<>> THEN <<f>>
  ELSE IF StrLess(f.name, sorted[1].name) THEN <<f>> \o sorted
  ELSE <<sorted[1]>> \o InsertByName(Tail(sorted), f)

RECURSIVE SortByName(_)
SortByName(files) ==
  IF files = <<>> THEN <<>> ELSE InsertByName(SortByName(Tail(files)), files[1])

BasicKeeps(f) == EndsWith(f.name, <<".","h","t","m","l">>) /\ f.name # <<"b","a","r","n","-","v","e","n","u","e","-","c","o","m","p","o","n","e","n","t","s","-","c","o","m","p","l","e","t","e",".","h","t","m","l">>

\* 'component' not in file.lower() and 'library' not in file.lower()
MajorKeeps(f) ==
  /\ EndsWith(f.name, <<".","h","t","m","l">>)
  /\ ~Contains(Lower(f.name), <<"c","o","m","p","o","n","e","n","t">>)
  /\ ~Contains(Lower(f.name), <<"l","i","b","r","a","r","y">>)

\* sorted(html_files)[:10]
OptimizedFileLimit == 10

-----------------------------------------------------------------------------
(* extract_components_advanced.py and extract_components_optimized.py *)

AdvancedSelectors ==
  <<[selector |-> <<"h","e","a","d","e","r">>, category |-> <<"N","A","V","I","G","A","T","I","O","N">>],
    [selector |-> <<"n","a","v">>, category |-> <<"N","A","V","I","G","A","T","I","O","N">>],
    [selector |-> <<".","n","a","v","i","g","a","t","i","o","n">>, category |-> <<"N","A","V","I","G","A","T","I","O","N">>],
    [selector |-> <<".","n","a","v","b","a","r">>, category |-> <<"N","A","V","I","G","A","T","I","O","N">>],
    [selector |-> <<".","h","e","r","o">>, category |-> <<"H","E","R","O"," ","S","E","C","T","I","O","N","S">>],
    [selector |-> <<".","b","a","n","n","e","r">>, category |-> <<"H","E","R","O"," ","S","E","C","T","I","O","N","S">>],
    [selector |-> <<".","s","h","o","w","c","a","s","e">>, category |-> <<"H","E","R","O"," ","S","E","C","T","I","O","N","S">>],
    [selector |-> <<".","j","u","m","b","o","t","r","o","n">>, category |-> <<"H","E","R","O"," ","S","E","C","T","I","O","N","S">>],
    [selector |-> <<".","g","a","l","l","e","r","y">>, category |-> <<"G","A","L","L","E","R","I","E","S">>],
    [selector |-> <<".","p","o","r","t","f","o","l","i","o">>, category |-> <<"G","A","L","L","E","R","I","E","S">>],
    [selector |-> <<".","i","m","a","g","e","-","g","r","i","d">>, category |-> <<"G","A","L","L","E","R","I","E","S">>],
    [selector |-> <<".","i","n","s","t","a","g","r","a","m">>, category |-> <<"G","A","L","L","E","R","I","E","S">>],
    [selector |-> <<".","s","e","r","v","i","c","e","s">>, category |-> <<"S","E","R","V","I","C","E"," ","S","E","C","T","I","O","N","S">>],
    [selector |-> <<".","f","e","a","t","u","r","e","s">>, category |-> <<"S","E","R","V","I","C","E"," ","S","E","C","T","I","O","N","S">>],
    [selector |-> <<".","b","e","n","e","f","i","t","s">>, category |-> <<"S","E","R","V","I","C","E"," ","S","E","C","T","I","O","N","S">>],
    [selector |-> <<".","t","e","s","t","i","m","o","n","i","a","l">>, category |-> <<"T","E","S","T","I","M","O","N","I","A","L","S">>],
    [selector |-> <<".","r","e","v","i","e","w","s">>, category |-> <<"T","E","S","T","I","M","O","N","I","A","L","S">>],
    [selector |-> <<".","f","e","e","d","b","a","c","k">>, category |-> <<"T","E","S","T","I","M","O","N","I","A","L","S">>],
    [selector |-> <<".","p","r","i","c","i","n","g">>, category |-> <<"P","R","I","C","I","N","G">>],
    [selector |-> <<".","p","a","c","k","a","g","e","s">>, category |-> <<"P","R","I","C","I","N","G">>],
    [selector |-> <<".","p","l","a","n","s">>, category |-> <<"P","R","I","C","I","N","G">>],
    [selector |-> <<".","c","o","n","t","a","c","t">>, category |-> <<"C","O","N","T","A","C","T"," ","F","O","R","M","S">>],
    [selector |-> <<"f","o","r","m">>, category |-> <<"C","O","N","T","A","C","T"," ","F","O","R","M","S">>],
    [selector |-> <<".","b","o","o","k","i","n","g">>, category |-> <<"C","O","N","T","A","C","T"," ","F","O","R","M","S">>],
    [selector |-> <<"f","o","o","t","e","r">>, category |-> <<"F","O","O","T","E","R","S">>],
    [selector |-> <<".","f","o","o","t","e","r">>, category |-> <<"F","O","O","T","E","R","S">>],
    [selector |-> <<".","c","a","r","d">>, category |-> <<"C","A","R","D","S"," ","&"," ","B","L","O","C","K","S">>],
    [selector |-> <<".","b","l","o","c","k">>, category |-> <<"C","A","R","D","S"," ","&"," ","B","L","O","C","K","S">>],
    [selector |-> <<".","i","t","e","m">>, category |-> <<"C","A","R","D","S"," ","&"," ","B","L","O","C","K","S">>],
    [selector |-> <<".","a","c","c","o","r","d","i","o","n">>, category |-> <<"I","N","T","E","R","A","C","T","I","V","E">>],
    [selector |-> <<".","t","a","b","s">>, category |-> <<"I","N","T","E","R","A","C","T","I","V","E">>],
    [selector |-> <<".","m","o","d","a","l">>, category |-> <<"I","N","T","E","R","A","C","T","I","V","E">>],
    [selector |-> <<".","p","o","p","u","p">>, category |-> <<"I","N","T","E","R","A","C","T","I","V","E">>],
    [selector |-> <<".","s","l","i","d","e","r">>, category |-> <<"I","N","T","E","R","A","C","T","I","V","E">>],
    [selector |-> <<".","c","a","r","o","u","s","e","l">>, category |-> <<"I","N","T","E","R","A","C","T","I","V","E">>],
    [selector |-> <<"s","e","c","t","i","o","n">>, category |-> <<"C","O","N","T","E","N","T"," ","S","E","C","T","I","O","N","S">>],
    [selector |-> <<".","s","e","c","t","i","o","n">>, category |-> <<"C","O","N","T","E","N","T"," ","S","E","C","T","I","O","N","S">>]>>

OptimizedSelectors ==
  <<[selector |-> <<"h","e","a","d","e","r">>, category |-> <<"H","E","A","D","E","R","S">>],
    [selector |-> <<"n","a","v">>, category |-> <<"N","A","V","I","G","A","T","I","O","N">>],
    [selector |-> <<".","h","e","r","o">>, category |-> <<"H","E","R","O","E","S">>],
    [selector |-> <<".","g","a","l","l","e","r","y">>, category |-> <<"G","A","L","L","E","R","I","E","S">>],
    [selector |-> <<".","s","e","r","v","i","c","e","s">>, category |-> <<"S","E","R","V","I","C","E","S">>],
    [selector |-> <<".","t","e","s","t","i","m","o","n","i","a","l">>, category |-> <<"T","E","S","T","I","M","O","N","I","A","L","S">>],
    [selector |-> <<".","p","r","i","c","i","n","g">>, category |-> <<"P","R","I","C","I","N","G">>],
    [selector |-> <<".","c","o","n","t","a","c","t">>, category |-> <<"F","O","R","M","S">>],
    [selector |-> <<"f","o","o","t","e","r">>, category |-> <<"F","O","O","T","E","R","S">>],
    [selector |-> <<".","s","e","c","t","i","o","n">>, category |-> <<"S","E","C","T","I","O","N","S">>],
    [selector |-> <<".","c","a","r","d">>, category |-> <<"C","A","R","D","S">>],
    [selector |-> <<".","a","c","c","o","r","d","i","o","n">>, category |-> <<"A","C","C","O","R","D","I","O","N","S">>],
    [selector |-> <<".","t","a","b","s">>, category |-> <<"T","A","B","S">>],
    [selector |-> <<".","m","o","d","a","l">>, category |-> <<"M","O","D","A","L","S">>],
    [selector |-> <<".","s","l","i","d","e","r">>, category |-> <<"S","L","I","D","E","R","S">>]>>

\* elements[:5]
AdvancedLimit == 5

\* elements[:3]
OptimizedLimit == 3

\* len(str(elem)) > 100
MajorMinSize == 100

MajorSelectorsOf(s) == IF s = "advanced" THEN AdvancedSelectors ELSE OptimizedSelectors

MajorLimitOf(s) == IF s = "advanced" THEN AdvancedLimit ELSE OptimizedLimit

\* soup.select(selector) for '.x', soup.find_all(selector) for a tag name
MajorSelect(soup, selector) ==
  IF StartsWith(selector, <<".">>) THEN Select(soup, Css(<<>>, Tail(selector), <<>>))
  ELSE Select(soup, Css(selector, <<>>, <<>>))

\* The candidates of one document: for every table entry, the first `limit`
\* elements it selects, each with the entry's category.
RECURSIVE MajorCandidates(_, _, _, _)
MajorCandidates(soup, selectors, limit, i) ==
  IF i > Len(selectors) THEN <<>>
  ELSE LET hits == Slice(MajorSelect(soup, selectors[i].selector), limit)
       IN [k \in 1..Len(hits) |-> [category |-> selectors[i].category, elem |-> hits[k]]]
          \o MajorCandidates(soup, selectors, limit, i + 1)

\* The loop of extract_major_components over the candidates i, i+1, ... up
\* to, not including, candidate `stop`: seen_hashes is local to the call.
RECURSIVE MajorLoop(_, _, _, _, _, _, _)
MajorLoop(cands, i, stop, file_name, seen, id, out) ==
  IF i > Len(cands) \/ i = stop THEN [components |-> out, component_id |-> id]
  ELSE LET elem == cands[i].elem
           elem_hash == ElementHashPrefix(elem)
       IN IF Len(Str(elem)) > MajorMinSize /\ elem_hash \notin seen
          THEN MajorLoop(cands, i + 1, stop, file_name, seen \cup {elem_hash}, id + 1,
                         Append(out, [id |-> id, category |-> cands[i].category,
                                      file_source |-> file_name, hash |-> elem_hash,
                                      element |-> elem]))
          ELSE MajorLoop(cands, i + 1, stop, file_name, seen, id, out)

\* What process_file returns, r being what the loop over the elements gave
\* up to the step that raised: r itself without an exception, [] after one
\* (component_id keeps what the loop added to it).
ProcessFileReturns(fail, id, r) ==
  IF fail = 0 THEN r
  ELSE [components |-> <<>>, component_id |-> IF fail = 1 THEN id ELSE r.component_id]

\* extract_major_components(soup, file_name) with self.component_id = id
MajorCandidatesOf ==
  [s \in {"advanced", "optimized"} |->
     [f \in Library |-> MajorCandidates(f.soup, MajorSelectorsOf(s), MajorLimitOf(s), 1)]]

ExtractMajorComponents(s, file, stop, id) ==
  MajorLoop(MajorCandidatesOf[s][file], 1, stop, file.name, {}, id, <<>>)

MajorSteps(s, file) == 1 + Len(MajorCandidatesOf[s][file])

\* process_file(file_path): step 1 reads and parses, step 1+i handles
\* candidate i; `fail` is the step that raises (0: none). On an exception the
\* method returns [], and component_id keeps what the loop added to it.
MajorProcessFile(s, file, fail, id) ==
  ProcessFileReturns(fail, id, ExtractMajorComponents(s, file, (IF fail = 0 THEN 0 ELSE fail - 1), id))

-----------------------------------------------------------------------------
(* extract_components.py *)

ComponentPatterns ==
  <<[category |-> <<"h","e","a","d","e","r","s">>, patterns |-> <<<<"h","e","a","d","e","r">>, <<"n","a","v">>, <<"n","a","v","i","g","a","t","i","o","n">>, <<"n","a","v","b","a","r">>, <<"m","e","n","u">>>>],
    [category |-> <<"h","e","r","o","e","s">>, patterns |-> <<<<"h","e","r","o">>, <<"b","a","n","n","e","r">>, <<"j","u","m","b","o","t","r","o","n">>, <<"s","h","o","w","c","a","s","e">>>>],
    [category |-> <<"g","a","l","l","e","r","i","e","s">>, patterns |-> <<<<"g","a","l","l","e","r","y">>, <<"p","o","r","t","f","o","l","i","o">>, <<"g","r","i","d">>, <<"m","a","s","o","n","r","y">>, <<"i","n","s","t","a","g","r","a","m">>>>],
    [category |-> <<"f","o","r","m","s">>, patterns |-> <<<<"f","o","r","m">>, <<"c","o","n","t","a","c","t">>, <<"b","o","o","k","i","n","g">>, <<"r","e","s","e","r","v","a","t","i","o","n">>>>],
    [category |-> <<"c","a","r","d","s">>, patterns |-> <<<<"c","a","r","d">>, <<"s","e","r","v","i","c","e">>, <<"p","r","i","c","i","n","g">>, <<"p","a","c","k","a","g","e">>, <<"t","e","s","t","i","m","o","n","i","a","l">>, <<"r","e","v","i","e","w">>>>],
    [category |-> <<"s","e","c","t","i","o","n","s">>, patterns |-> <<<<"s","e","c","t","i","o","n">>, <<"f","e","a","t","u","r","e">>, <<"a","b","o","u","t">>, <<"c","o","n","t","e","n","t">>, <<"b","l","o","c","k">>>>],
    [category |-> <<"f","o","o","t","e","r","s">>, patterns |-> <<<<"f","o","o","t","e","r">>>>],
    [category |-> <<"m","o","d","a","l","s">>, patterns |-> <<<<"m","o","d","a","l">>, <<"p","o","p","u","p">>, <<"o","v","e","r","l","a","y">>>>],
    [category |-> <<"s","l","i","d","e","r","s">>, patterns |-> <<<<"s","l","i","d","e","r">>, <<"c","a","r","o","u","s","e","l">>, <<"s","l","i","d","e","s","h","o","w">>>>],
    [category |-> <<"t","a","b","s">>, patterns |-> <<<<"t","a","b">>, <<"a","c","c","o","r","d","i","o","n">>, <<"t","o","g","g","l","e">>>>],
    [category |-> <<"d","i","v","i","d","e","r","s">>, patterns |-> <<<<"d","i","v","i","d","e","r">>, <<"s","e","p","a","r","a","t","o","r">>, <<"s","h","a","p","e">>>>],
    [category |-> <<"a","n","i","m","a","t","i","o","n","s">>, patterns |-> <<<<"a","n","i","m","a","t","i","o","n">>, <<"p","a","r","a","l","l","a","x">>, <<"s","c","r","o","l","l">>>>],
    [category |-> <<"b","u","t","t","o","n","s">>, patterns |-> <<<<"b","t","n">>, <<"b","u","t","t","o","n">>, <<"c","t","a">>>>],
    [category |-> <<"t","e","a","m","s">>, patterns |-> <<<<"t","e","a","m">>, <<"s","t","a","f","f">>, <<"m","e","m","b","e","r">>>>],
    [category |-> <<"m","a","p","s">>, patterns |-> <<<<"m","a","p">>, <<"l","o","c","a","t","i","o","n">>, <<"d","i","r","e","c","t","i","o","n">>>>],
    [category |-> <<"s","o","c","i","a","l">>, patterns |-> <<<<"s","o","c","i","a","l">>, <<"s","h","a","r","e">>, <<"p","r","o","o","f">>>>],
    [category |-> <<"s","t","a","t","s">>, patterns |-> <<<<"s","t","a","t">>, <<"c","o","u","n","t","e","r">>, <<"n","u","m","b","e","r">>>>],
    [category |-> <<"b","l","o","g","s">>, patterns |-> <<<<"b","l","o","g">>, <<"a","r","t","i","c","l","e">>, <<"p","o","s","t">>, <<"n","e","w","s">>>>],
    [category |-> <<"f","a","q","s">>, patterns |-> <<<<"f","a","q">>, <<"q","u","e","s","t","i","o","n">>, <<"a","c","c","o","r","d","i","o","n">>>>]>>

\* pattern in ['header', 'footer', 'nav', 'section', 'form']
TagPatterns == {<<"h","e","a","d","e","r">>, <<"f","o","o","t","e","r">>, <<"n","a","v">>, <<"s","e","c","t","i","o","n">>, <<"f","o","r","m">>}

\* soup.find_all(class_=re.compile(pattern, re.I)): some class token holds the pattern
ClassMatches(e, pattern) == \E i \in 1..Len(e.classes) : Contains(Lower(e.classes[i]), pattern)

\* soup.find_all(id=re.compile(pattern, re.I))
IdMatches(e, pattern) == e.id # <<>> /\ Contains(Lower(e.id), pattern)

Tags(soup) == LET w == Walk(soup) IN [i \in 1..Len(w) |-> w[i].e]

WithCategory(category, elems) == [k \in 1..Len(elems) |-> [category |-> category, elem |-> elems[k]]]

\* The elements one pattern selects: by class, then by id, then by tag name.
PatternCandidates(soup, category, pattern) ==
  WithCategory(category, SelectSeq(Tags(soup), LAMBDA e : ClassMatches(e, pattern)))
  \o WithCategory(category, SelectSeq(Tags(soup), LAMBDA e : IdMatches(e, pattern)))
  \o (IF pattern \in TagPatterns
      THEN WithCategory(category, SelectSeq(Tags(soup), LAMBDA e : e.tag = pattern))
      ELSE <<>>)

RECURSIVE CategoryCandidates(_, _, _, _)
CategoryCandidates(soup, category, patterns, j) ==
  IF j > Len(patterns) THEN <<>>
  ELSE PatternCandidates(soup, category, patterns[j]) \o CategoryCandidates(soup, category, patterns, j + 1)

RECURSIVE BasicCandidates(_, _)
BasicCandidates(soup, i) ==
  IF i > Len(ComponentPatterns) THEN <<>>
  ELSE CategoryCandidates(soup, ComponentPatterns[i].category, ComponentPatterns[i].patterns, 1)
       \o BasicCandidates(soup, i + 1)

\* child_count < 2
MinChildCount == 2

\* text_length < 20
BasicMinText == 20

\* is_significant_element without the child_count test
IsSignificantElementNoChildCount(element) == Len(Text(element)) >= BasicMinText

IsSignificantElement(element) ==
  IF Text(element) = <<>> THEN FALSE
  ELSE IF Len(FindAll(element)) < MinChildCount THEN FALSE
  ELSE IF Len(Text(element)) < BasicMinText THEN FALSE
  ELSE TRUE

\* is_duplicate(component) against self.components
IsDuplicate(component, comps) == \E i \in 1..Len(comps) : comps[i].hash = component.hash

\* os.path.basename(s): what follows the last '/'
Basename(s) ==
  LET slashes == {i \in 1..Len(s) : s[i] = "/"}
  IN IF slashes = {} THEN s
     ELSE SubSeq(s, (CHOOSE i \in slashes : \A j \in slashes : j <= i) + 1, Len(s))

\* extract_component_from_element(element, file_name, component_type), with
\* self.component_id = id. process_file passes the file's content as
\* file_name, so 'file_source' is the basename of the content.
ExtractComponentFromElement(element, file_name, component_type, id) ==
  [id |-> id, category |-> Upper(component_type), file_source |-> Basename(file_name),
   hash |-> ElementHashPrefix(element), element |-> element]

\* The loops of process_file over the candidates i, i+1, ... up to, not
\* including, candidate `stop`; comps is self.components.
RECURSIVE BasicLoop(_, _, _, _, _, _, _)
BasicLoop(cands, i, stop, content, comps, id, out) ==
  IF i > Len(cands) \/ i = stop THEN [components |-> out, component_id |-> id]
  ELSE IF IsSignificantElement(cands[i].elem)
       THEN LET component == ExtractComponentFromElement(cands[i].elem, content, cands[i].category, id)
            IN BasicLoop(cands, i + 1, stop, content, comps, id + 1,
                         IF IsDuplicate(component, comps) THEN out ELSE Append(out, component))
       ELSE BasicLoop(cands, i + 1, stop, content, comps, id, out)

BasicCandidatesOf == [f \in Library |-> BasicCandidates(f.soup, 1)]

\* content = f.read(): the text of the file
ContentOf == [f \in Library |-> SerializeKids(f.soup.kids, 1)]

BasicSteps(file) == 1 + Len(BasicCandidatesOf[file])

\* process_file(file_path): step 1 reads and parses, step 1+i handles
\* candidate i; `fail` is the step that raises (0: none). On an exception
\* the method returns [], and component_id keeps what the loop added to it.
BasicProcessFile(file, fail, comps, id) ==
  ProcessFileReturns(fail, id, BasicLoop(BasicCandidatesOf[file], 1, (IF fail = 0 THEN 0 ELSE fail - 1),
                                         ContentOf[file], comps, id, <<>>))

\* self.components.extend(components) with the list process_file returned,
\* and a variant that assigns the list instead of extending by it
ExtendAssigning(comps, new) == new

Extend(comps, new) == comps \o new

\* run's last pass keeping the last component of each hash
RECURSIVE UniqueByHashKeepingLast(_, _, _, _)
UniqueByHashKeepingLast(comps, i, seen, out) ==
  IF i > Len(comps) THEN out
  ELSE IF \E j \in (i + 1)..Len(comps) : comps[j].hash = comps[i].hash
       THEN UniqueByHashKeepingLast(comps, i + 1, seen, out)
       ELSE UniqueByHashKeepingLast(comps, i + 1, seen, Append(out, comps[i]))

\* run's last pass with the duplicates kept
UniqueByHashKeepingAll(comps, i, seen, out) == comps

\* "Remove duplicates one more time" in run: the first component of each hash
RECURSIVE UniqueByHash(_, _, _, _)
UniqueByHash(comps, i, seen, out) ==
  IF i > Len(comps) THEN out
  ELSE IF comps[i].hash \notin seen
       THEN UniqueByHash(comps, i + 1, seen \cup {comps[i].hash}, Append(out, comps[i]))
       ELSE UniqueByHash(comps, i + 1, seen, out)

-----------------------------------------------------------------------------
(* The rendered catalog *)

\* sorted(categories.items()): the (category, components) pairs of a dict,
\* in the order of the category strings
SortedItems(cats) ==
  [k \in 1..Cardinality(DOMAIN cats) |->
     LET category == CHOOSE c \in DOMAIN cats : Cardinality({d \in DOMAIN cats : StrLess(d, c)}) = k - 1
     IN [category |-> category, comps |-> cats[category]]]

\* generate_html_library with only the first component of every group
GenerateHtmlLibraryFirstOnly(comps) ==
  SortedItems([c \in {comps[i].category : i \in 1..Len(comps)} |->
                 Slice(SelectSeq(comps, LAMBDA comp : comp.category = c), 1)])

\* generate_html_library of extract_components*.py: the accordion groups of
\* the navigation. self.components is grouped by 'category', every group in
\* the order of self.components, and the groups are rendered sorted.
GenerateHtmlLibrary(comps) ==
  SortedItems([c \in {comps[i].category : i \in 1..Len(comps)} |->
                 SelectSeq(comps, LAMBDA comp : comp.category = c)])

-----------------------------------------------------------------------------
(* clean_migration.py *)

\* The position of the first occurrence of sub in s at or after `from`, 0 if none.
IndexOf(s, sub, from) ==
  LET hits == {i \in from..(Len(s) - Len(sub) + 1) : SubSeq(s, i, i + Len(sub) - 1) = sub}
  IN IF hits = {} THEN 0 ELSE CHOOSE i \in hits : \A j \in hits : i <= j

\* s.replace(old, new), old not empty
RECURSIVE Replace(_, _, _)
Replace(s, old, new) ==
  LET i == IndexOf(s, old, 1)
  IN IF i = 0 THEN s
     ELSE SubSeq(s, 1, i - 1) \o new \o Replace(SubSeq(s, i + Len(old), Len(s)), old, new)

IsDigit(c) == OrdOf[c] \in 48..57

AllDigits(s) == s # <<>> /\ \A i \in 1..Len(s) : IsDigit(s[i])

\* re.match(r'^400AcresOf', comp_name)
MatchesAcres(comp_name) == StartsWith(comp_name, <<"4","0","0","A","c","r","e","s","O","f">>)

\* re.match(r'Component_\d+$', comp_name): re.match anchors at the start
MatchesNumbered(comp_name) ==
  StartsWith(comp_name, <<"C","o","m","p","o","n","e","n","t","_">>) /\ AllDigits(SubSeq(comp_name, 11, Len(comp_name)))

\* remove_patterns without the entry for the generic numbered components
MatchesRemovePatternAcresOnly(comp_name) == MatchesAcres(comp_name)

\* any(re.match(pattern, comp_name) for pattern in remove_patterns)
MatchesRemovePattern(comp_name) == MatchesAcres(comp_name) \/ MatchesNumbered(comp_name)

\* re.search(r'<template>(.*?)</template>', content, re.DOTALL): whether it
\* matches, and group(1)
TemplateMatch(content) ==
  LET open == IndexOf(content, <<"<","t","e","m","p","l","a","t","e",">">>, 1)
      close == IF open = 0 THEN 0 ELSE IndexOf(content, <<"<","/","t","e","m","p","l","a","t","e",">">>, open + 10)
  IN IF close = 0 THEN [found |-> FALSE, group |-> <<>>]
     ELSE [found |-> TRUE, group |-> SubSeq(content, open + 10, close - 1)]

\* The files of a directory: a function from file name to content.
RemoveFile(dir, name) == [f \in (DOMAIN dir) \ {name} |-> dir[f]]

WriteFile(dir, name, content) == [f \in (DOMAIN dir) \cup {name} |-> IF f = name THEN content ELSE dir[f]]

\* d[key] = value left out: the dict stays as it is
DictSetNothing(d, key, value) == d

\* d[key] = value on a dict
DictSet(d, key, value) == [k \in (DOMAIN d) \cup {key} |-> IF k = key THEN value ELSE d[k]]

CompFile(comp_name) == comp_name \o <<".","v","u","e">>

StoryFile(comp_name) == comp_name \o <<".","s","t","o","r","y",".","v","u","e">>

\* "if os.path.exists(path): os.remove(path)" left out
RemoveIfExistsNothing(dir, name) == dir

\* if os.path.exists(path): os.remove(path)
RemoveIfExists(dir, name) == IF name \in DOMAIN dir THEN RemoveFile(dir, name) ELSE dir

\* "Keep the one with the better name": the test that replaces `existing`
\* by comp_name as the kept file of a hash
BetterName(comp_name, existing) == Len(comp_name) < Len(existing) \/ StrLess(comp_name, existing)

\* One iteration of the loop of clean_existing_components, for comp_file, in
\* the state fs = [comp_dir, story_dir, content_hashes, crashed]. os.remove
\* and open raise FileNotFoundError on a missing file, which nothing catches.
CleanOne(comp_file, fs) ==
  LET comp_name == Replace(comp_file, <<".","v","u","e">>, <<>>)
      tm == TemplateMatch(fs.comp_dir[comp_file])
      content_hash == Md5(tm.group)
  IN IF comp_file \notin DOMAIN fs.comp_dir THEN [fs EXCEPT !.crashed = TRUE]
     ELSE IF MatchesRemovePattern(comp_name)
     THEN [fs EXCEPT !.comp_dir = RemoveFile(@, comp_file),
                     !.story_dir = RemoveIfExists(@, StoryFile(comp_name))]
     ELSE IF ~tm.found THEN fs
     ELSE IF content_hash \in DOMAIN fs.content_hashes
     THEN LET existing == fs.content_hashes[content_hash]
          IN IF BetterName(comp_name, existing)
             THEN [fs EXCEPT !.comp_dir = RemoveIfExists(@, CompFile(existing)),
                             !.story_dir = RemoveIfExists(@, StoryFile(existing)),
                             !.content_hashes = DictSet(@, content_hash, comp_name)]
             ELSE [fs EXCEPT !.comp_dir = RemoveFile(@, comp_file),
                             !.story_dir = RemoveIfExists(@, StoryFile(comp_name))]
     ELSE [fs EXCEPT !.content_hashes = DictSet(@, content_hash, comp_name)]

\* re.sub(r'_\d+$', '', comp_name)
BaseName(comp_name) ==
  LET us == {i \in 1..Len(comp_name) : comp_name[i] = "_" /\ AllDigits(SubSeq(comp_name, i + 1, Len(comp_name)))}
  IN IF us = {} THEN comp_name ELSE SubSeq(comp_name, 1, (CHOOSE i \in us : TRUE) - 1)

\* consolidate_similar_components: of the components with one base name,
\* sorted, all but the first two are removed when there are more than two.
CompNames(comp_dir) == {Replace(f, <<".","v","u","e">>, <<>>) : f \in {g \in DOMAIN comp_dir : EndsWith(g, <<".","v","u","e">>)}}

Redundant(comp_dir) ==
  {n \in CompNames(comp_dir) :
     Cardinality({m \in CompNames(comp_dir) : BaseName(m) = BaseName(n) /\ StrLess(m, n)}) >= 2}

ConsolidateComps(comp_dir) ==
  [f \in (DOMAIN comp_dir) \ {CompFile(n) : n \in Redundant(comp_dir)} |-> comp_dir[f]]

\* consolidate_similar_components without the removal of the story files
ConsolidateStoriesKeepingAll(comp_dir, story_dir) == story_dir

ConsolidateStories(comp_dir, story_dir) ==
  [f \in (DOMAIN story_dir) \ {StoryFile(n) : n \in Redundant(comp_dir)} |-> story_dir[f]]

\* The renames table of rename_components, in the order of the dict.
Renames ==
  << <<<<"A","P","i","c","t","u","r","e","s","q","u","e","S","e","t","t","i","n","g">>, <<"V","e","n","u","e","L","a","n","d","s","c","a","p","e">>>>,
     <<<<"W","h","e","r","e","R","u","s","t","i","c","C","h","a","r","m">>, <<"R","u","s","t","i","c","H","e","r","o">>>>,
     <<<<"W","i","l","l","o","w","C","r","e","e","k","b","a","r","n">>, <<"B","a","r","n","V","e","n","u","e">>>>,
     <<<<"R","u","m","R","i","v","e","r","b","a","r","n","V","i","n","e","y","a","r","d">>, <<"V","i","n","e","y","a","r","d","H","e","r","o">>>>,
     <<<<"H","e","r","o","e","C","o","m","p","o","n","e","n","t">>, <<"H","e","r","o","S","e","c","t","i","o","n">>>>,
     <<<<"W","h","e","r","e","L","o","v","e","S","t","o","r","i","e","s">>, <<"L","o","v","e","S","t","o","r","y","H","e","r","o">>>>,
     <<<<"T","h","e","H","i","s","t","o","r","i","c","B","a","r","n">>, <<"H","i","s","t","o","r","i","c","V","e","n","u","e">>>>,
     <<<<"Y","o","u","r","p","e","r","f","e","c","t","D","a","y","a","w","a","i","t","s">>, <<"P","e","r","f","e","c","t","D","a","y","H","e","r","o">>>> >>

\* new_name of rename_components for comp_name: built from the first key of
\* the table comp_name starts with (the loop breaks there), with the suffix
\* kept when it starts with '_'; comp_name itself when no key matches.
NewName(comp_name) ==
  LET hits == {k \in 1..Len(Renames) : StartsWith(comp_name, Renames[k][1])}
  IN IF hits = {} THEN comp_name
     ELSE LET r == Renames[CHOOSE k \in hits : \A j \in hits : k <= j]
              suffix == SubSeq(comp_name, Len(r[1]) + 1, Len(comp_name))
          IN IF suffix # <<>> /\ suffix[1] = "_" THEN r[2] \o suffix ELSE r[2]

\* The four replacements of rename_components in the story file, without
\* the one of the display name in the title
RenameStoryKeepingTitle(story_content, comp_name, new_name) ==
  Replace(Replace(Replace(story_content,
                          <<"i","m","p","o","r","t"," ">> \o comp_name, <<"i","m","p","o","r","t"," ">> \o new_name),
                  <<"f","r","o","m"," ","'",".",".","/","c","o","m","p","o","n","e","n","t","s","/">> \o comp_name \o <<".","v","u","e","'">>, <<"f","r","o","m"," ","'",".",".","/","c","o","m","p","o","n","e","n","t","s","/">> \o new_name \o <<".","v","u","e","'">>),
          <<"<">> \o comp_name \o <<" ","/",">">>, <<"<">> \o new_name \o <<" ","/",">">>)

\* The four replacements of rename_components in the story file.
RenameStory(story_content, comp_name, new_name) ==
  Replace(Replace(Replace(Replace(story_content,
                                  <<"i","m","p","o","r","t"," ">> \o comp_name, <<"i","m","p","o","r","t"," ">> \o new_name),
                          <<"f","r","o","m"," ","'",".",".","/","c","o","m","p","o","n","e","n","t","s","/">> \o comp_name \o <<".","v","u","e","'">>, <<"f","r","o","m"," ","'",".",".","/","c","o","m","p","o","n","e","n","t","s","/">> \o new_name \o <<".","v","u","e","'">>),
                  <<"<">> \o comp_name \o <<" ","/",">">>, <<"<">> \o new_name \o <<" ","/",">">>),
          <<"/">> \o Replace(comp_name, <<"_">>, <<" ">>) \o <<"\"">>, <<"/">> \o Replace(new_name, <<"_">>, <<" ">>) \o <<"\"">>)

\* One iteration of the loop of rename_components, for comp_file, in the
\* state fs = [comp_dir, story_dir, crashed]: the component file is written
\* under the new name with its name and class replaced, the story file, if
\* there is one, is written under the new name with its references
\* replaced, and the old files are removed.
RenameOne(comp_file, fs) ==
  LET comp_name == Replace(comp_file, <<".","v","u","e">>, <<>>)
      new_name == NewName(comp_name)
  IN IF new_name = comp_name THEN fs
     ELSE IF CompFile(comp_name) \notin DOMAIN fs.comp_dir THEN [fs EXCEPT !.crashed = TRUE]
     ELSE [fs EXCEPT
             !.comp_dir =
                RemoveFile(WriteFile(@, CompFile(new_name),
                                     Replace(Replace(@[CompFile(comp_name)],
                                                     <<"n","a","m","e",":"," ","'">> \o comp_name \o <<"'">>, <<"n","a","m","e",":"," ","'">> \o new_name \o <<"'">>),
                                             <<"c","l","a","s","s","=","\"">> \o Lower(comp_name) \o <<"-","c","o","m","p","o","n","e","n","t","\"">>,
                                             <<"c","l","a","s","s","=","\"">> \o Lower(new_name) \o <<"-","c","o","m","p","o","n","e","n","t","\"">>)),
                           CompFile(comp_name)),
             !.story_dir =
                IF StoryFile(comp_name) \notin DOMAIN @ THEN @
                ELSE RemoveFile(WriteFile(@, StoryFile(new_name),
                                          RenameStory(@[StoryFile(comp_name)], comp_name, new_name)),
                                StoryFile(comp_name))]

\* A component file as create_vue_component writes it, shortened to the
\* parts the cleanup reads: the template and the name.
VueFile(name, template) ==
  <<"<","t","e","m","p","l","a","t","e",">">> \o template \o <<"<","/","t","e","m","p","l","a","t","e",">","<","s","c","r","i","p","t",">","n","a","m","e",":"," ","'">> \o name \o <<"'","<","/","s","c","r","i","p","t",">">>

\* A story file as create_histoire_story writes it, without the layout
\* attribute and the Variant element around the component tag.
StoryContent(name, category) ==
  <<"<","s","c","r","i","p","t"," ","s","e","t","u","p",">","i","m","p","o","r","t"," ">> \o name \o <<" ","f","r","o","m"," ","'",".",".","/","c","o","m","p","o","n","e","n","t","s","/">> \o name \o <<".","v","u","e","'","<","/","s","c","r","i","p","t",">","<","t","e","m","p","l","a","t","e",">","<","S","t","o","r","y"," ","t","i","t","l","e","=","\"">> \o <<UpperChar(category[1])>> \o Lower(Tail(category)) \o <<"/">> \o Replace(name, <<"_">>, <<" ">>) \o <<"\"",">","<">> \o name \o <<" ","/",">","<","/","S","t","o","r","y",">","<","/","t","e","m","p","l","a","t","e",">">>

\* The component files a components directory may hold; `story` says whether
\* the stories directory holds the component's story file.
VueLibrary ==
  { [name |-> <<"B">>, category |-> <<"n","a","v","i","g","a","t","i","o","n">>, content |-> VueFile(<<"B">>, <<"<","n","a","v",">","m","e","n","u","<","/","n","a","v",">">>), story |-> TRUE],
    [name |-> <<"A","A">>, category |-> <<"n","a","v","i","g","a","t","i","o","n">>, content |-> VueFile(<<"A","A">>, <<"<","n","a","v",">","m","e","n","u","<","/","n","a","v",">">>), story |-> TRUE],
    [name |-> <<"A","B">>, category |-> <<"n","a","v","i","g","a","t","i","o","n">>, content |-> VueFile(<<"A","B">>, <<"<","n","a","v",">","m","e","n","u","<","/","n","a","v",">">>), story |-> FALSE],
    [name |-> <<"C","o","m","p","o","n","e","n","t","_","1">>, category |-> <<"n","a","v","i","g","a","t","i","o","n">>, content |-> VueFile(<<"C","o","m","p","o","n","e","n","t","_","1">>, <<"<","n","a","v",">","m","e","n","u","<","/","n","a","v",">">>), story |-> TRUE],
    [name |-> <<"H","e","r","o","_","1">>, category |-> <<"h","e","r","o","e","s">>, content |-> VueFile(<<"H","e","r","o","_","1">>, <<"<","p",">","o","n","e","<","/","p",">">>), story |-> TRUE],
    [name |-> <<"H","e","r","o","_","2">>, category |-> <<"h","e","r","o","e","s">>, content |-> VueFile(<<"H","e","r","o","_","2">>, <<"<","p",">","t","w","o","<","/","p",">">>), story |-> FALSE],
    [name |-> <<"H","e","r","o","_","3">>, category |-> <<"h","e","r","o","e","s">>, content |-> VueFile(<<"H","e","r","o","_","3">>, <<"<","p",">","t","h","r","e","e","<","/","p",">">>), story |-> TRUE],
    [name |-> <<"E","m","p","t","y">>, category |-> <<"c","o","n","t","e","n","t">>, content |-> <<"<","s","c","r","i","p","t",">","n","a","m","e",":"," ","'","E","m","p","t","y","'","<","/","s","c","r","i","p","t",">">>, story |-> FALSE],
    [name |-> <<"W","h","e","r","e","R","u","s","t","i","c","C","h","a","r","m","_","3">>, category |-> <<"h","e","r","o","e","s">>, content |-> VueFile(<<"W","h","e","r","e","R","u","s","t","i","c","C","h","a","r","m","_","3">>, <<"<","d","i","v"," ","c","l","a","s","s","=","\"","w","h","e","r","e","r","u","s","t","i","c","c","h","a","r","m","_","3","-","c","o","m","p","o","n","e","n","t","\"",">","<","h","1",">","W","h","e","r","e"," ","r","u","s","t","i","c"," ","c","h","a","r","m","<","/","h","1",">","<","/","d","i","v",">">>), story |-> TRUE],
    [name |-> <<"H","e","r","o","e","C","o","m","p","o","n","e","n","t","_","2">>, category |-> <<"h","e","r","o","e","s">>, content |-> VueFile(<<"H","e","r","o","e","C","o","m","p","o","n","e","n","t","_","2">>, <<"<","d","i","v"," ","c","l","a","s","s","=","\"","h","e","r","o","e","c","o","m","p","o","n","e","n","t","_","2","-","c","o","m","p","o","n","e","n","t","\"",">","<","p",">","b","a","r","n","<","/","p",">","<","/","d","i","v",">">>), story |-> FALSE],
    \* two names that start with a key of the renames table and go on
    \* without '_'
    [name |-> <<"W","h","e","r","e","R","u","s","t","i","c","C","h","a","r","m","i","n","g","_","4">>, category |-> <<"h","e","r","o","e","s">>, content |-> VueFile(<<"W","h","e","r","e","R","u","s","t","i","c","C","h","a","r","m","i","n","g","_","4">>, <<"<","h","1",">","W","h","e","r","e"," ","r","u","s","t","i","c"," ","c","h","a","r","m","i","n","g","<","/","h","1",">">>), story |-> TRUE],
    [name |-> <<"W","h","e","r","e","R","u","s","t","i","c","C","h","a","r","m","s","_","5">>, category |-> <<"h","e","r","o","e","s">>, content |-> VueFile(<<"W","h","e","r","e","R","u","s","t","i","c","C","h","a","r","m","s","_","5">>, <<"<","h","1",">","W","h","e","r","e"," ","r","u","s","t","i","c"," ","c","h","a","r","m","s","<","/","h","1",">">>), story |-> FALSE] }

\* The largest number of component files in the components directory.
MaxCompFiles == 3

CompDirOf(files) == [f \in {CompFile(v.name) : v \in files} |-> (CHOOSE v \in files : CompFile(v.name) = f).content]

StoryDirOf(files) ==
  [f \in {StoryFile(v.name) : v \in {w \in files : w.story}} |->
     StoryContent((CHOOSE v \in files : StoryFile(v.name) = f).name,
                  (CHOOSE v \in files : StoryFile(v.name) = f).category)]

\* A directory listing that names one file twice
ListDirRepeating(dir) == [1..(Cardinality(DOMAIN dir) + 1) -> DOMAIN dir]

\* os.listdir(dir): the file names, in an arbitrary order
ListDir(dir) ==
  LET n == Cardinality(DOMAIN dir)
  IN {l \in [1..n -> DOMAIN dir] : \A i, j \in 1..n : i # j => l[i] # l[j]}

-----------------------------------------------------------------------------
(* migrate_to_histoire.py: the main block *)

\* len(migrator.components) > 50
MigrationLimit == 50

\* "Rebuild categories with limited components": a new defaultdict(list),
\* filled from comps[i], comps[i+1], ...
RECURSIVE RebuildCategories(_, _, _)
RebuildCategories(comps, i, cats) ==
  IF i > Len(comps) THEN cats
  ELSE RebuildCategories(comps, i + 1, CategoriesAppend(cats, comps[i].category, comps[i]))

\* The limit of the main block: more than `limit` components are cut to
\* the first `limit`, and the categories are rebuilt from them.
LimitComponents(comps, cats, limit) ==
  IF Len(comps) > limit
  THEN [components |-> Slice(comps, limit),
        categories |-> RebuildCategories(Slice(comps, limit), 1, [k \in {} |-> <<>>])]
  ELSE [components |-> comps, categories |-> cats]

\* The loop of save_components from comps[i] on: the component file and the
\* story file of each component, written with open(path, 'w').
RECURSIVE SaveComponents(_, _, _)
SaveComponents(comps, i, dirs) ==
  IF i > Len(comps) THEN dirs
  ELSE SaveComponents(comps, i + 1,
         [comp_dir |-> WriteFile(dirs.comp_dir, CompFile(comps[i].name),
                                 VueFile(comps[i].name,
                                         <<"<","d","i","v"," ","c","l","a","s","s","=","\"">> \o Lower(comps[i].name) \o <<"-","c","o","m","p","o","n","e","n","t","\"",">">>
                                           \o Str(comps[i].element) \o <<"<","/","d","i","v",">">>)),
          story_dir |-> WriteFile(dirs.story_dir, StoryFile(comps[i].name),
                                  StoryContent(comps[i].name, comps[i].category))])

-----------------------------------------------------------------------------
(* The state of one run of one script *)

VARIABLES
  script,          \* the script that runs
  pc,              \* where the run is
  listing,         \* os.listdir of the input directory
  html_files,      \* the files the run processes, in order
  idx,             \* the position of the loop over html_files
  components,      \* self.components
  categories,      \* self.categories (tailwind, histoire)
  seen_hashes,     \* self.seen_hashes (tailwind, histoire)
  component_id,    \* self.component_id (basic, advanced, optimized)
  component_count, \* self.component_count (histoire)
  log,             \* the files whose "Error processing" message was printed
  catalog,         \* the catalog file the run wrote: its name, category groups, cards, total
  comp_dir,        \* src/components: file name -> content
  story_dir,       \* src/stories: file name -> content
  component_files, \* the directory listing clean_existing_components iterates
  ci,              \* the position of that iteration
  content_hashes,  \* content_hashes of clean_existing_components
  crashed,         \* an exception no handler catches ended the run
  components_dir_exists, \* os.path.exists(self.components_dir)
  rename_files,    \* the directory listing rename_components iterates
  ri,              \* the position of that iteration
  report           \* the last message of run_cleanup and its final_count

vars ==
  <<script, pc, listing, html_files, idx, components, categories, seen_hashes, component_id,
    component_count, log, catalog, comp_dir, story_dir, component_files, ci, content_hashes, crashed,
    components_dir_exists, rename_files, ri, report>>

extractorVars ==
  <<listing, html_files, idx, components, categories, seen_hashes, component_id, component_count, log,
    catalog>>

cleanerVars ==
  <<comp_dir, story_dir, component_files, ci, content_hashes, crashed,
    components_dir_exists, rename_files, ri, report>>

Extractors == {"basic", "advanced", "optimized", "tailwind", "histoire"}

EmptyDict == [k \in {} |-> <<>>]

\* __init__ of the script's class, in a directory with some files.
Init ==
  /\ script \in Extractors \cup {"clean"}
  /\ pc = "start"
  /\ listing \in (IF script = "clean" THEN {<<>>} ELSE Listings)
  /\ html_files = <<>>
  /\ idx = 1
  /\ components = <<>>
  /\ categories = EmptyDict
  /\ seen_hashes = {}
  /\ component_id = 1
  /\ component_count = 0
  /\ log = <<>>
  /\ catalog = [file |-> <<>>, groups |-> <<>>, cards |-> <<>>, total |-> 0]
  /\ components_dir_exists \in (IF script = "clean" THEN BOOLEAN ELSE {TRUE})
  /\ \E files \in (IF script = "clean" /\ components_dir_exists
                   THEN {fs \in SUBSET VueLibrary : Cardinality(fs) <= MaxCompFiles}
                   ELSE {{}}) :
       /\ comp_dir = CompDirOf(files)
       /\ story_dir = StoryDirOf(files)
  /\ component_files = <<>>
  /\ ci = 1
  /\ content_hashes = EmptyDict
  /\ crashed = FALSE
  /\ rename_files = <<>>
  /\ ri = 1
  /\ report = [text |-> "", final_count |-> 0]

-----------------------------------------------------------------------------
(* The extractors *)

\* scan_directory / the html_files list of extract_all_components
ScanDirectory ==
  /\ pc = "start"
  /\ script \in Extractors
  /\ html_files' = CASE script = "basic" -> SortByName(SelectSeq(listing, BasicKeeps))
                     [] script = "advanced" -> SortByName(SelectSeq(listing, MajorKeeps))
                     [] script = "optimized" ->
                          Slice(SortByName(SelectSeq(listing, MajorKeeps)), OptimizedFileLimit)
                     [] script = "tailwind" -> SelectSeq(listing, TailwindKeeps)
                     [] script = "histoire" -> SelectSeq(listing, HistoireKeeps)
  /\ pc' = "loop"
  /\ UNCHANGED <<script, listing, idx, components, categories, seen_hashes, component_id,
                 component_count, log, catalog>>
  /\ UNCHANGED cleanerVars

\* The extractor's fields after extract_from_file left the state st.
ExtractorBecomes(st) ==
  /\ components' = st.components
  /\ categories' = st.categories
  /\ seen_hashes' = st.seen_hashes
  /\ component_count' = st.component_count
  /\ log' = st.log

\* TailwindStyleExtractor / HistoireMigrator: one iteration of the loop of
\* extract_all_components, extract_from_file on the next file.
ExtractFromFileStep ==
  /\ pc = "loop"
  /\ script \in {"tailwind", "histoire"}
  /\ idx <= Len(html_files)
  /\ \E fail \in 0..ExtractSteps(script, html_files[idx], seen_hashes) :
       ExtractorBecomes(ExtractFromFile(script, html_files[idx], fail,
                                        [components |-> components, categories |-> categories,
                                         seen_hashes |-> seen_hashes,
                                         component_count |-> component_count, log |-> log]))
  /\ idx' = idx + 1
  /\ UNCHANGED <<script, pc, listing, html_files, component_id, catalog>>
  /\ UNCHANGED cleanerVars

\* extract_all_components returns self.categories
ExtractAllReturn ==
  /\ pc = "loop"
  /\ script \in {"tailwind", "histoire"}
  /\ idx > Len(html_files)
  /\ pc' = "done"
  /\ UNCHANGED <<script>>
  /\ UNCHANGED extractorVars
  /\ UNCHANGED cleanerVars

\* run without taking over the counter process_file returns
RunExtendsKeepingId(r) ==
  /\ components' = Extend(components, r.components)
  /\ component_id' = component_id

\* "components = self.process_file(file_path); self.components.extend(components)",
\* r being what process_file gave: the list and the component_id it left.
RunExtends(r) ==
  /\ components' = Extend(components, r.components)
  /\ component_id' = r.component_id

\* ComponentExtractor.run: one iteration of the loop, process_file on the
\* next file and self.components.extend(components).
BasicProcessFileStep ==
  /\ pc = "loop"
  /\ script = "basic"
  /\ idx <= Len(html_files)
  /\ \E fail \in 0..BasicSteps(html_files[idx]) :
       /\ RunExtends(BasicProcessFile(html_files[idx], fail, components, component_id))
       /\ log' = IF fail = 0 THEN log ELSE Append(log, html_files[idx].name)
  /\ idx' = idx + 1
  /\ UNCHANGED <<script, pc, listing, html_files, categories, seen_hashes, component_count, catalog>>
  /\ UNCHANGED cleanerVars

\* The catalog generate_html_library renders from comps, written to `file`
\* in the scanned directory: the accordion groups, one card for each
\* component, and the number of components the page shows.
CatalogBecomes(file, comps) ==
  catalog' = [file |-> file, groups |-> GenerateHtmlLibrary(comps), cards |-> comps,
              total |-> Len(comps)]

\* ComponentExtractor.run after the loop: "Remove duplicates one more time",
\* then generate_html_library and the catalog file.
BasicRunDedup ==
  /\ pc = "loop"
  /\ script = "basic"
  /\ idx > Len(html_files)
  /\ components' = UniqueByHash(components, 1, {}, <<>>)
  /\ CatalogBecomes(<<"a","u","t","o","-","c","o","m","p","o","n","e","n","t","-","l","i","b","r","a","r","y",".","h","t","m","l">>, components')
  /\ pc' = "done"
  /\ UNCHANGED <<script, listing, html_files, idx, categories, seen_hashes, component_id,
                 component_count, log>>
  /\ UNCHANGED cleanerVars

\* AdvancedComponentExtractor.run / OptimizedComponentExtractor.run: one
\* iteration of the loop, process_file and self.components.extend(components).
MajorProcessFileStep ==
  /\ pc = "loop"
  /\ script \in {"advanced", "optimized"}
  /\ idx <= Len(html_files)
  /\ \E fail \in 0..MajorSteps(script, html_files[idx]) :
       /\ RunExtends(MajorProcessFile(script, html_files[idx], fail, component_id))
       /\ log' = IF fail = 0 THEN log ELSE Append(log, html_files[idx].name)
  /\ idx' = idx + 1
  /\ UNCHANGED <<script, pc, listing, html_files, categories, seen_hashes, component_count, catalog>>
  /\ UNCHANGED cleanerVars

\* AdvancedComponentExtractor.run / OptimizedComponentExtractor.run after the
\* loop: generate_html_library and the catalog file.
MajorRunEnd ==
  /\ pc = "loop"
  /\ script \in {"advanced", "optimized"}
  /\ idx > Len(html_files)
  /\ CatalogBecomes(IF script = "advanced" THEN <<"c","o","m","p","o","n","e","n","t","-","l","i","b","r","a","r","y","-","a","d","v","a","n","c","e","d",".","h","t","m","l">>
                    ELSE <<"c","o","m","p","o","n","e","n","t","-","l","i","b","r","a","r","y","-","a","c","c","o","r","d","i","o","n",".","h","t","m","l">>, components)
  /\ pc' = "done"
  /\ UNCHANGED <<script, listing, html_files, idx, components, categories, seen_hashes,
                 component_id, component_count, log>>
  /\ UNCHANGED cleanerVars

\* TailwindStyleExtractor.save_library, which the script calls after
\* extract_all_components: the category list of generate_html, its cards
\* and the count of 'All Components'.
SaveLibrary ==
  /\ pc = "done"
  /\ script = "tailwind"
  /\ catalog' = [file |-> <<"c","o","m","p","o","n","e","n","t","-","l","i","b","r","a","r","y","-","t","a","i","l","w","i","n","d",".","h","t","m","l">>, groups |-> SortedItems(categories),
                 cards |-> components, total |-> Len(components)]
  /\ pc' = "saved"
  /\ UNCHANGED <<script, listing, html_files, idx, components, categories, seen_hashes,
                 component_id, component_count, log>>
  /\ UNCHANGED cleanerVars

\* The migrator's lists after the limit of the main block left r, and the
\* directories after save_components wrote `saved`.
MigratorBecomes(r, saved) ==
  /\ components' = r.components
  /\ categories' = r.categories
  /\ comp_dir' = saved.comp_dir
  /\ story_dir' = saved.story_dir

\* The main block of migrate_to_histoire.py after extract_all_components:
\* the limit to the first 50 components, then save_components.
MigrateMain ==
  /\ pc = "done"
  /\ script = "histoire"
  /\ \E r \in {LimitComponents(components, categories, MigrationLimit)} :
       MigratorBecomes(r, SaveComponents(r.components, 1, [comp_dir |-> comp_dir, story_dir |-> story_dir]))
  /\ pc' = "saved"
  /\ UNCHANGED <<script, listing, html_files, idx, seen_hashes, component_id, component_count,
                 log, catalog, component_files, ci, content_hashes, crashed,
                 components_dir_exists, rename_files, ri, report>>

-----------------------------------------------------------------------------
(* The cleanup *)

\* clean_existing_components up to its loop: it returns at once when the
\* components directory does not exist, and lists the directory otherwise
\* (the stories directory exists in the model).
CleanStart ==
  /\ pc = "start"
  /\ script = "clean"
  /\ IF components_dir_exists
     THEN /\ component_files' \in ListDir(comp_dir)
          /\ pc' = "cleaning"
     ELSE /\ component_files' = component_files
          /\ pc' = "cleaned"
  /\ ci' = 1
  /\ UNCHANGED <<script, comp_dir, story_dir, content_hashes, crashed,
                 components_dir_exists, rename_files, ri, report>>
  /\ UNCHANGED extractorVars

\* The directories and content_hashes after an iteration left the state fs.
CleanerBecomes(fs) ==
  /\ comp_dir' = fs.comp_dir
  /\ story_dir' = fs.story_dir
  /\ content_hashes' = fs.content_hashes
  /\ crashed' = fs.crashed

\* One iteration of the loop of clean_existing_components.
CleanFile ==
  /\ pc = "cleaning"
  /\ ~crashed
  /\ ci <= Len(component_files)
  /\ CleanerBecomes(CleanOne(component_files[ci],
                             [comp_dir |-> comp_dir, story_dir |-> story_dir,
                              content_hashes |-> content_hashes, crashed |-> crashed]))
  /\ ci' = ci + 1
  /\ UNCHANGED <<script, pc, component_files, components_dir_exists, rename_files, ri, report>>
  /\ UNCHANGED extractorVars

\* The end of clean_existing_components: self.consolidate_similar_components()
Consolidate ==
  /\ pc = "cleaning"
  /\ ~crashed
  /\ ci > Len(component_files)
  /\ comp_dir' = ConsolidateComps(comp_dir)
  /\ story_dir' = ConsolidateStories(comp_dir, story_dir)
  /\ pc' = "cleaned"
  /\ UNCHANGED <<script, component_files, ci, content_hashes, crashed,
                 components_dir_exists, rename_files, ri, report>>
  /\ UNCHANGED extractorVars

\* rename_components up to its loop: os.listdir(self.components_dir), which
\* raises FileNotFoundError when the directory does not exist; run_cleanup
\* has no handler for it. The local variables of clean_existing_components
\* are gone by now.
RenameStart ==
  /\ pc = "cleaned"
  /\ script = "clean"
  /\ ~crashed
  /\ IF components_dir_exists
     THEN /\ rename_files' \in ListDir(comp_dir)
          /\ crashed' = crashed
     ELSE /\ rename_files' = rename_files
          /\ crashed' = TRUE
  /\ ri' = 1
  /\ pc' = "renaming"
  /\ component_files' = <<>>
  /\ ci' = 1
  /\ content_hashes' = EmptyDict
  /\ UNCHANGED <<script, comp_dir, story_dir, components_dir_exists, report>>
  /\ UNCHANGED extractorVars

\* The directories after an iteration of rename_components left the state fs.
RenamerBecomes(fs) ==
  /\ comp_dir' = fs.comp_dir
  /\ story_dir' = fs.story_dir
  /\ crashed' = fs.crashed

\* One iteration of the loop of rename_components.
RenameFile ==
  /\ pc = "renaming"
  /\ ~crashed
  /\ ri <= Len(rename_files)
  /\ RenamerBecomes(RenameOne(rename_files[ri],
                              [comp_dir |-> comp_dir, story_dir |-> story_dir, crashed |-> crashed]))
  /\ ri' = ri + 1
  /\ UNCHANGED <<script, pc, component_files, ci, content_hashes,
                 components_dir_exists, rename_files, report>>
  /\ UNCHANGED extractorVars

\* The end of run_cleanup, after rename_components returned (its local
\* variables are gone): the count of the component files, or the message
\* that there are none when the components directory does not exist.
RunCleanupEnd ==
  /\ pc = "renaming"
  /\ ~crashed
  /\ ri > Len(rename_files)
  /\ report' = IF components_dir_exists
               THEN [text |-> "Cleanup complete", final_count |-> Cardinality(DOMAIN comp_dir)]
               ELSE [text |-> "No components found", final_count |-> 0]
  /\ pc' = "finished"
  /\ rename_files' = <<>>
  /\ ri' = 1
  /\ UNCHANGED <<script, comp_dir, story_dir, component_files, ci, content_hashes, crashed,
                 components_dir_exists>>
  /\ UNCHANGED extractorVars

Next ==
  \/ ScanDirectory
  \/ ExtractFromFileStep
  \/ ExtractAllReturn
  \/ BasicProcessFileStep
  \/ BasicRunDedup
  \/ MajorProcessFileStep
  \/ MajorRunEnd
  \/ SaveLibrary
  \/ MigrateMain
  \/ CleanStart
  \/ CleanFile
  \/ Consolidate
  \/ RenameStart
  \/ RenameFile
  \/ RunCleanupEnd

Spec == Init /\ [][Next]_vars

-----------------------------------------------------------------------------
(* Properties *)

Range(seq) == {seq[i] : i \in 1..Len(seq)}

FileNames(files) == {files[i].name : i \in 1..Len(files)}

\* No two components of comps were made from elements with the same digest.
DistinctElementHashes(comps) ==
  \A i, j \in 1..Len(comps) : i # j => ElementHash(comps[i].element) # ElementHash(comps[j].element)

\* No two components of comps have the same 'hash'.
DistinctHashes(comps) == \A i, j \in 1..Len(comps) : i # j => comps[i].hash # comps[j].hash

\* C1: in TailwindStyleExtractor and HistoireMigrator, whatever documents
\* extract_all_components has processed, no two components of self.components
\* come from elements with the same content hash.
C1_DistinctContentHash ==
  script \in {"tailwind", "histoire"} => DistinctElementHashes(components)

\* The hero element occurs in index.html, twice in venue.html, and two
\* selectors select it: after a run over both files it is retained once.
C1_Witness ==
  /\ script = "histoire"
  /\ pc = "done"
  /\ log = <<>>
  /\ FileNames(html_files) = {<<"i","n","d","e","x",".","h","t","m","l">>, <<"v","e","n","u","e",".","h","t","m","l">>}
  /\ Cardinality({i \in 1..Len(components) : components[i].element = HeroEl}) = 1

\* C2: after AdvancedComponentExtractor.run and OptimizedComponentExtractor.run
\* no two components of self.components have the same 'hash'.
C2_MajorDistinctHashes ==
  (script \in {"advanced", "optimized"} /\ pc = "done") => DistinctHashes(components)

\* C3: after ComponentExtractor.run no two components of self.components
\* have the same 'hash'.
C3_BasicDistinctHashes == (script = "basic" /\ pc = "done") => DistinctHashes(components)

\* story.html was processed: several patterns selected its section, each
\* selection took an id, and one component of it is left after the run.
C3_Witness ==
  /\ script = "basic"
  /\ pc = "done"
  /\ log = <<>>
  /\ FileNames(html_files) = {<<"s","t","o","r","y",".","h","t","m","l">>}
  /\ component_id > Len(components) + 2
  /\ \E i \in 1..Len(components) : components[i].element = StoryEl

\* The component names the duplicate pass of clean_existing_components
\* hashes: those of the listing without a known-bad name and with a template.
InitialContent(comp_name) == (CHOOSE v \in VueLibrary : v.name = comp_name).content

HashedNames ==
  {n \in {Replace(f, <<".","v","u","e">>, <<>>) : f \in Range(component_files)} :
     ~MatchesRemovePattern(n) /\ TemplateMatch(InitialContent(n)).found}

SameTemplate(n) ==
  {m \in HashedNames : TemplateMatch(InitialContent(m)).group = TemplateMatch(InitialContent(n)).group}

\* The tie-break rule: the shorter name, then the lexicographically smaller.
RuleBetter(a, b) == Len(a) < Len(b) \/ (Len(a) = Len(b) /\ StrLess(a, b))

\* C4: after clean_existing_components, of the component files with one
\* template content only the one the tie-break rule (shortest name, then
\* lexicographically smallest) selects can be left, whatever the order of
\* the directory listing.
C4_SurvivorByTieBreak ==
  (script = "clean" /\ pc = "cleaned") =>
    \A n \in HashedNames :
      CompFile(n) \in DOMAIN comp_dir => \A m \in SameTemplate(n) \ {n} : RuleBetter(n, m)

\* C5: a document that fails while it is processed adds no component to the
\* accumulated components, the components of earlier documents are kept,
\* and the loop goes on to the next document.
C5_FailedDocumentSkipped ==
  [][Len(log') > Len(log) => (components' = components /\ idx' = idx + 1 /\ pc' = pc)]_vars

\* No entry of the selector/pattern table of script s selects an element of file f.
NoMatch(s, f) ==
  CASE s = "basic" -> BasicCandidatesOf[f] = <<>>
    [] s \in {"advanced", "optimized"} -> MajorCandidatesOf[s][f] = <<>>
    [] s \in {"tailwind", "histoire"} -> ExtractCandidatesOf[s][f] = <<>>
    [] OTHER -> FALSE

\* C6: processing a document in which no element matches any entry of the
\* selector/pattern table leaves the component list and the category
\* mapping unchanged.
C6_NoMatchNoChange ==
  [][(pc = "loop" /\ idx <= Len(html_files) /\ idx' = idx + 1 /\ NoMatch(script, html_files[idx]))
       => (components' = components /\ categories' = categories)]_vars

\* plain.html was processed second, after a document that gave components.
C6_Witness ==
  /\ script \in {"basic", "histoire"}
  /\ pc = "loop"
  /\ idx = 3
  /\ html_files[2].name = <<"p","l","a","i","n",".","h","t","m","l">>
  /\ NoMatch(script, html_files[2])
  /\ components # <<>>

\* C7: ComponentExtractor never retains an element with fewer than 2
\* descendant elements.
C7_BasicMinDescendants ==
  script = "basic" => \A i \in 1..Len(components) : Len(FindAll(components[i].element)) >= 2

\* venue.html was processed without an error: the tag pattern 'footer'
\* selects its footer, which has one descendant and 42 characters of text,
\* and no component was made of it.
C7_Witness ==
  /\ script = "basic"
  /\ pc = "done"
  /\ log = <<>>
  /\ <<"v","e","n","u","e",".","h","t","m","l">> \in FileNames(html_files)
  /\ \E k \in 1..Len(BasicCandidatesOf[CHOOSE f \in Library : f.name = <<"v","e","n","u","e",".","h","t","m","l">>]) :
       BasicCandidatesOf[CHOOSE f \in Library : f.name = <<"v","e","n","u","e",".","h","t","m","l">>][k].elem = FooterEl
  /\ Len(Text(FooterEl)) >= BasicMinText
  /\ components # <<>>
  /\ \A i \in 1..Len(components) : components[i].element # FooterEl

\* C8: TailwindStyleExtractor and HistoireMigrator retain an element only
\* if it has non-empty text, of at least the minimum length, and at least
\* one descendant element.
C8_RetainedIsSignificant ==
  script \in {"tailwind", "histoire"} =>
    \A i \in 1..Len(components) :
      /\ Text(components[i].element) # <<>>
      /\ Len(Text(components[i].element)) >= (IF script = "tailwind" THEN TailwindMinText ELSE HistoireMinText)
      /\ Len(FindAll(components[i].element)) >= 1

\* C9: two elements with the same tag name, class list and visible text get
\* the same category from get_component_category.
C9_CategoryOfTagClassText ==
  script \in {"tailwind", "histoire"} =>
    \A i, j \in 1..Len(components) :
      (/\ components[i].element.tag = components[j].element.tag
       /\ components[i].element.classes = components[j].element.classes
       /\ Text(components[i].element) = Text(components[j].element))
      => components[i].category = components[j].category

\* C10: HistoireMigrator on a directory with about.html (the <nav> with 3
\* links and 40 characters) and index.html (the <div class="hero"> with an
\* image and 50 characters) yields exactly 2 components, "navigation" for
\* the first document and "heroes" for the second, and the category mapping
\* has exactly these two groups with one entry each.
C10_EndToEnd ==
  (/\ script = "histoire"
   /\ pc = "done"
   /\ log = <<>>
   /\ FileNames(html_files) = {<<"a","b","o","u","t",".","h","t","m","l">>, <<"i","n","d","e","x",".","h","t","m","l">>})
  => /\ Len(components) = 2
     /\ \A i \in 1..2 :
          /\ components[i].source = <<"a","b","o","u","t",".","h","t","m","l">> =>
               (components[i].element = NavEl /\ components[i].category = <<"n","a","v","i","g","a","t","i","o","n">>)
          /\ components[i].source = <<"i","n","d","e","x",".","h","t","m","l">> =>
               (components[i].element = HeroEl /\ components[i].category = <<"h","e","r","o","e","s">>)
     /\ {components[i].source : i \in 1..2} = {<<"a","b","o","u","t",".","h","t","m","l">>, <<"i","n","d","e","x",".","h","t","m","l">>}
     /\ DOMAIN categories = {<<"n","a","v","i","g","a","t","i","o","n">>, <<"h","e","r","o","e","s">>}
     /\ \A k \in DOMAIN categories :
          /\ Len(categories[k]) = 1
          /\ categories[k][1] \in Range(components)
          /\ categories[k][1].category = k

\* The run of C10 has ended, and more than one selector selects the hero.
C10_Witness ==
  /\ script = "histoire"
  /\ pc = "done"
  /\ log = <<>>
  /\ FileNames(html_files) = {<<"a","b","o","u","t",".","h","t","m","l">>, <<"i","n","d","e","x",".","h","t","m","l">>}
  /\ Len(Text(NavEl)) = 40
  /\ Len(FindAll(NavEl)) = 3
  /\ Len(Text(HeroEl)) = 50
  /\ Len(ExtractCandidatesOf["histoire"][CHOOSE f \in Library : f.name = <<"i","n","d","e","x",".","h","t","m","l">>]) > 1

\* C11: consolidate_similar_components leaves, of the components with one
\* base name, the first two in lexicographic order when there are more than
\* two and all of them otherwise; the story file of a removed component is
\* removed, and the story files of the others are left as they were.
C11_ConsolidateKeepsFirstTwo ==
  [][(pc = "cleaning" /\ pc' = "cleaned") =>
       /\ \A n \in CompNames(comp_dir) :
            /\ (CompFile(n) \in DOMAIN comp_dir') <=>
                 (\/ Cardinality({m \in CompNames(comp_dir) : BaseName(m) = BaseName(n)}) <= 2
                  \/ Cardinality({m \in CompNames(comp_dir) : BaseName(m) = BaseName(n) /\ StrLess(m, n)}) < 2)
            /\ CompFile(n) \notin DOMAIN comp_dir' => StoryFile(n) \notin DOMAIN story_dir'
            /\ CompFile(n) \in DOMAIN comp_dir' =>
                 /\ comp_dir'[CompFile(n)] = comp_dir[CompFile(n)]
                 /\ (StoryFile(n) \in DOMAIN story_dir') <=> (StoryFile(n) \in DOMAIN story_dir)
       /\ \A n \in CompNames(comp_dir') :
            Cardinality({m \in CompNames(comp_dir') : BaseName(m) = BaseName(n)}) <= 2
       /\ DOMAIN comp_dir' \subseteq DOMAIN comp_dir
       /\ DOMAIN story_dir' \subseteq DOMAIN story_dir]_vars

\* Hero_1, Hero_2 and Hero_3 were listed: consolidation removed Hero_3 and
\* its story and left the other two.
C11_Witness ==
  /\ script = "clean"
  /\ pc = "cleaned"
  /\ Range(component_files) = {<<"H","e","r","o","_","1",".","v","u","e">>, <<"H","e","r","o","_","2",".","v","u","e">>, <<"H","e","r","o","_","3",".","v","u","e">>}
  /\ DOMAIN comp_dir = {<<"H","e","r","o","_","1",".","v","u","e">>, <<"H","e","r","o","_","2",".","v","u","e">>}
  /\ <<"H","e","r","o","_","3",".","s","t","o","r","y",".","v","u","e">> \notin DOMAIN story_dir
  /\ <<"H","e","r","o","_","1",".","s","t","o","r","y",".","v","u","e">> \in DOMAIN story_dir

\* comp_name starts with a key of the renames table
StartsWithKey(comp_name) == \E k \in 1..Len(Renames) : StartsWith(comp_name, Renames[k][1])

\* name.replace('_', ' '): the display name of a story's title
DisplayName(name) == Replace(name, <<"_">>, <<" ">>)

\* The import identifier, the import path, the component tag and the title
\* of a story refer to name.
StoryRefersTo(story_content, name) ==
  /\ \A import \in {<<"i","m","p","o","r","t"," ">> \o name \o <<" ","f","r","o","m"," ","'",".",".","/","c","o","m","p","o","n","e","n","t","s","/">> \o name \o <<".","v","u","e","'">>} :
       Contains(story_content, import)
  /\ \A tag \in {<<"<">> \o name \o <<" ","/",">">>} : Contains(story_content, tag)
  /\ \A title \in {<<"/">> \o DisplayName(name) \o <<"\"">>} : Contains(story_content, title)

\* C12: rename_components leaves a component whose name starts with a key of
\* the renames table only under its new name: the old component file and
\* the old story file are removed, the component file exists under the new
\* name, and the story file, when the component had one, exists under the
\* new name, refers to the new name in its import identifier, import path,
\* component tag and title, and holds no reference to the old name. At the
\* end of rename_components this holds of every component of the listing.
C12_RenamedEverywhere ==
  [][/\ (pc = "renaming" /\ ri <= Len(rename_files) /\ ri' = ri + 1) =>
          \A comp_name \in {n \in {Replace(rename_files[ri], <<".","v","u","e">>, <<>>)} : StartsWithKey(n)} :
            \A new_name \in {NewName(comp_name)} :
              /\ new_name # comp_name
              /\ ~StartsWithKey(new_name)
              /\ CompFile(comp_name) \notin DOMAIN comp_dir'
              /\ StoryFile(comp_name) \notin DOMAIN story_dir'
              /\ CompFile(new_name) \in DOMAIN comp_dir'
              /\ StoryFile(comp_name) \in DOMAIN story_dir =>
                   /\ StoryFile(new_name) \in DOMAIN story_dir'
                   /\ \A story_content \in {story_dir'[StoryFile(new_name)]} :
                        /\ StoryRefersTo(story_content, new_name)
                        /\ ~Contains(story_content, comp_name)
                        /\ \A old_display \in {DisplayName(comp_name)} :
                             ~Contains(story_content, old_display)
     /\ (pc = "renaming" /\ pc' = "finished") =>
          \A comp_name \in {n \in {Replace(f, <<".","v","u","e">>, <<>>) : f \in Range(rename_files)} : StartsWithKey(n)} :
            /\ CompFile(comp_name) \notin DOMAIN comp_dir'
            /\ StoryFile(comp_name) \notin DOMAIN story_dir'
            /\ \A new_name \in {NewName(comp_name)} : CompFile(new_name) \in DOMAIN comp_dir'
            /\ \A old_display \in {DisplayName(comp_name)} :
                 \A g \in DOMAIN story_dir' :
                   \A story_content \in {story_dir'[g]} :
                     ~Contains(story_content, comp_name) /\ ~Contains(story_content, old_display)]_vars

\* WhereRusticCharm_3 with its story and HeroeComponent_2 without one were
\* listed: after the loop the first exists as RusticHero_3, with the story
\* create_histoire_story would have written for that name, and the second
\* as HeroSection_2, without a story.
C12_Witness ==
  /\ script = "clean"
  /\ pc = "renaming"
  /\ ri > Len(rename_files)
  /\ Range(rename_files) = {<<"W","h","e","r","e","R","u","s","t","i","c","C","h","a","r","m","_","3",".","v","u","e">>, <<"H","e","r","o","e","C","o","m","p","o","n","e","n","t","_","2",".","v","u","e">>}
  /\ DOMAIN comp_dir = {<<"R","u","s","t","i","c","H","e","r","o","_","3",".","v","u","e">>, <<"H","e","r","o","S","e","c","t","i","o","n","_","2",".","v","u","e">>}
  /\ DOMAIN story_dir = {<<"R","u","s","t","i","c","H","e","r","o","_","3",".","s","t","o","r","y",".","v","u","e">>}
  /\ story_dir[<<"R","u","s","t","i","c","H","e","r","o","_","3",".","s","t","o","r","y",".","v","u","e">>] = StoryContent(<<"R","u","s","t","i","c","H","e","r","o","_","3">>, <<"h","e","r","o","e","s">>)
  /\ comp_dir[<<"R","u","s","t","i","c","H","e","r","o","_","3",".","v","u","e">>] =
       VueFile(<<"R","u","s","t","i","c","H","e","r","o","_","3">>, <<"<","d","i","v"," ","c","l","a","s","s","=","\"","r","u","s","t","i","c","h","e","r","o","_","3","-","c","o","m","p","o","n","e","n","t","\"",">","<","h","1",">","W","h","e","r","e"," ","r","u","s","t","i","c"," ","c","h","a","r","m","<","/","h","1",">","<","/","d","i","v",">">>)

\* An entry of remove_patterns matches comp_name, as re.match applies it:
\* '^400AcresOf' at the start of the name, 'Component_\d+$' from the start
\* of the name to its end.
KnownBad(comp_name) ==
  \/ StartsWith(comp_name, <<"4","0","0","A","c","r","e","s","O","f">>)
  \/ /\ StartsWith(comp_name, <<"C","o","m","p","o","n","e","n","t","_">>)
     /\ Len(comp_name) > 10
     /\ \A i \in 11..Len(comp_name) : comp_name[i] \in {"0", "1", "2", "3", "4", "5", "6", "7", "8", "9"}

\* C13: after clean_existing_components no component file with a known-bad
\* name remains, the story file of every listed component with such a name
\* is removed, and such a name is never the kept name of a duplicate group
\* (it is never a value of content_hashes).
C13_KnownBadRemoved ==
  /\ \A h \in DOMAIN content_hashes : ~KnownBad(content_hashes[h])
  /\ (script = "clean" /\ pc = "cleaned") =>
       /\ \A f \in DOMAIN comp_dir : ~KnownBad(Replace(f, <<".","v","u","e">>, <<>>))
       /\ \A f \in Range(component_files) :
            KnownBad(Replace(f, <<".","v","u","e">>, <<>>)) =>
              /\ f \notin DOMAIN comp_dir
              /\ StoryFile(Replace(f, <<".","v","u","e">>, <<>>)) \notin DOMAIN story_dir

\* Component_1 and B, with the same template and a story each, were listed:
\* Component_1 and its story are removed and B is the kept name of the
\* template's hash, whatever the order of the listing.
C13_Witness ==
  /\ script = "clean"
  /\ pc = "cleaned"
  /\ component_files = <<<<"C","o","m","p","o","n","e","n","t","_","1",".","v","u","e">>, <<"B",".","v","u","e">>>>
  /\ DOMAIN comp_dir = {<<"B",".","v","u","e">>}
  /\ DOMAIN story_dir = {<<"B",".","s","t","o","r","y",".","v","u","e">>}
  /\ DOMAIN content_hashes # {}
  /\ \A h \in DOMAIN content_hashes : content_hashes[h] = <<"B">>

\* C20: when the components directory does not exist, run_cleanup raises
\* nothing, leaves the directories as they were, and ends with the report
\* that no components were found.
C20_MissingDirectoryReported ==
  (script = "clean" /\ ~components_dir_exists) =>
    /\ ~crashed
    /\ DOMAIN comp_dir = {}
    /\ DOMAIN story_dir = {}
    /\ pc = "finished" => report.text = "No components found"

\* The identifier of a retained component: the number of its 'id' in
\* extract_components*.py, the index that ends its name in HistoireMigrator.
IdentifierOf(c) == IF script = "histoire" THEN c.index ELSE c.id

\* C14: within a run of ComponentExtractor, AdvancedComponentExtractor,
\* OptimizedComponentExtractor or HistoireMigrator, the identifiers of the
\* retained components are pairwise distinct and strictly increasing in the
\* order of self.components, and none is beyond the counter.
C14_IdentifiersIncrease ==
  script \in {"basic", "advanced", "optimized", "histoire"} =>
    /\ \A i, j \in 1..Len(components) :
         i < j => IdentifierOf(components[i]) < IdentifierOf(components[j])
    /\ \A i \in 1..Len(components) :
         IF script = "histoire" THEN components[i].index \in 1..component_count
         ELSE components[i].id \in 1..(component_id - 1)

\* A run of ComponentExtractor in which identifiers were taken by candidates
\* that the final pass then discarded as duplicates: components of two
\* documents are retained and their identifiers leave a gap.
C14_Witness ==
  /\ script = "basic"
  /\ pc = "done"
  /\ Len(html_files) = 2
  /\ Len(components) >= 2
  /\ components[1].file_source # components[Len(components)].file_source
  /\ \E i \in 1..(Len(components) - 1) : components[i + 1].id > components[i].id + 1

\* The scripts that cap the elements a selector gives per document, and for
\* each the length of its selector table, its cap N, and what entry i of
\* the table selects in a document.
CappedScripts == {"optimized", "advanced", "tailwind", "histoire"}

TableLength(s) ==
  IF s \in {"tailwind", "histoire"} THEN Len(SelectorsOf(s)) ELSE Len(MajorSelectorsOf(s))

CapOf(s) == IF s \in {"tailwind", "histoire"} THEN LimitOf(s) ELSE MajorLimitOf(s)

SelectedBy(s, soup, i) ==
  IF s \in {"tailwind", "histoire"} THEN Select(soup, SelectorsOf(s)[i])
  ELSE MajorSelect(soup, MajorSelectorsOf(s)[i].selector)

\* Per script and document, for every entry of the table the first N
\* elements it selects.
EntrySlices ==
  [s \in CappedScripts |->
     [f \in Library |-> [i \in 1..TableLength(s) |-> Slice(SelectedBy(s, f.soup, i), CapOf(s))]]]

\* The first entry whose first N elements hold element e (0: none).
FirstEntry(e, slices) ==
  IF \A i \in 1..Len(slices) : e \notin Range(slices[i]) THEN 0
  ELSE CHOOSE i \in 1..Len(slices) :
         e \in Range(slices[i]) /\ \A j \in 1..(i - 1) : e \notin Range(slices[j])

\* C15: of the components a document adds in OptimizedComponentExtractor,
\* AdvancedComponentExtractor, TailwindStyleExtractor and HistoireMigrator,
\* each is among the first N elements of some entry of the selector table,
\* at most N are due to one entry, and there are at most N times the table
\* length of them (N = 3, 5, 5, 3).
C15_CapPerSelector ==
  [][(script \in CappedScripts /\ pc = "loop" /\ idx' = idx + 1) =>
       \A new \in {SubSeq(components', Len(components) + 1, Len(components'))} :
         \A slices \in {EntrySlices[script][html_files[idx]]} :
           /\ Len(new) <= CapOf(script) * TableLength(script)
           /\ \A k \in 1..Len(new) : FirstEntry(new[k].element, slices) # 0
           /\ \A i \in 1..Len(slices) :
                Cardinality({k \in 1..Len(new) : FirstEntry(new[k].element, slices) = i})
                  <= CapOf(script)]_vars

\* HistoireMigrator processed many.html, where 'section' selects six
\* elements that all pass is_valid_component: three are retained.
C15_Witness ==
  /\ script = "histoire"
  /\ pc = "done"
  /\ log = <<>>
  /\ FileNames(html_files) = {<<"m","a","n","y",".","h","t","m","l">>}
  /\ Len(components) = HistoireLimit
  /\ Len(Select(html_files[1].soup, HistoireSelectors[1])) = 6

\* The discovery order of a run over `files`: document by document in
\* processing order, within a document entry by entry of the selector or
\* pattern table, within an entry match by match. Every candidate is given
\* by the source, category and element a component made of it carries.
RECURSIVE DiscoveryOf(_, _)
DiscoveryOf(s, files) ==
  IF files = <<>> THEN <<>>
  ELSE (CASE s \in {"tailwind", "histoire"} ->
               [k \in 1..Len(ExtractCandidates(s, files[1])) |->
                  [src |-> files[1].name,
                   category |-> GetComponentCategory(s, ExtractCandidates(s, files[1])[k]),
                   element |-> ExtractCandidates(s, files[1])[k]]]
          [] s \in {"advanced", "optimized"} ->
               [k \in 1..Len(MajorCandidatesOf[s][files[1]]) |->
                  [src |-> files[1].name,
                   category |-> MajorCandidatesOf[s][files[1]][k].category,
                   element |-> MajorCandidatesOf[s][files[1]][k].elem]]
          [] s = "basic" ->
               [k \in 1..Len(BasicCandidatesOf[files[1]]) |->
                  [src |-> Basename(ContentOf[files[1]]),
                   category |-> Upper(BasicCandidatesOf[files[1]][k].category),
                   element |-> BasicCandidatesOf[files[1]][k].elem]])
       \o DiscoveryOf(s, Tail(files))

\* The source, category and element of the components of a group.
KeysOf(comps) ==
  [k \in 1..Len(comps) |->
     [src |-> IF script \in {"tailwind", "histoire"} THEN comps[k].source ELSE comps[k].file_source,
      category |-> comps[k].category,
      element |-> comps[k].element]]

\* a is b with some entries left out: the entries of a are in the order of b.
RECURSIVE IsSubsequence(_, _)
IsSubsequence(a, b) ==
  IF a = <<>> THEN TRUE
  ELSE IF b = <<>> THEN FALSE
  ELSE IF a[1] = b[1] THEN IsSubsequence(Tail(a), Tail(b))
  ELSE IsSubsequence(a, Tail(b))

\* C16: within every category group of the output (the groups of the
\* rendered catalog; self.categories in TailwindStyleExtractor and
\* HistoireMigrator) the components are in discovery order: the group is
\* the discovery order of the documents processed, with entries left out.
C16_DiscoveryOrderInGroups ==
  script \in Extractors =>
    \A discovery \in {DiscoveryOf(script, SubSeq(html_files, 1, idx - 1))} :
      /\ \A c \in DOMAIN categories : IsSubsequence(KeysOf(categories[c]), discovery)
      /\ \A g \in 1..Len(catalog.groups) : IsSubsequence(KeysOf(catalog.groups[g].comps), discovery)

\* A catalog of ComponentExtractor with a group of two or more components
\* from two documents, after the final pass discarded duplicates.
C16_Witness ==
  /\ script = "basic"
  /\ pc = "done"
  /\ \E i \in 1..(Len(components) - 1) : components[i + 1].id > components[i].id + 1
  /\ \E g \in 1..Len(catalog.groups) :
       /\ Len(catalog.groups[g].comps) >= 2
       /\ catalog.groups[g].comps[1].file_source # catalog.groups[g].comps[Len(catalog.groups[g].comps)].file_source

\* The categories in the order in which the script's selector or pattern
\* table first lists them.
RECURSIVE TableCategories(_, _, _)
TableCategories(table, i, out) ==
  IF i > Len(table) THEN out
  ELSE TableCategories(table, i + 1,
                       IF \E k \in 1..Len(out) : out[k] = table[i] THEN out ELSE Append(out, table[i]))

TableOrder ==
  [s \in {"basic", "advanced", "optimized"} |->
     TableCategories(CASE s = "basic" -> [i \in 1..Len(ComponentPatterns) |-> Upper(ComponentPatterns[i].category)]
                       [] s = "advanced" -> [i \in 1..Len(AdvancedSelectors) |-> AdvancedSelectors[i].category]
                       [] s = "optimized" -> [i \in 1..Len(OptimizedSelectors) |-> OptimizedSelectors[i].category],
                     1, <<>>)]

\* C17: the category groups of the rendered catalog of ComponentExtractor,
\* AdvancedComponentExtractor and OptimizedComponentExtractor are in the
\* order in which the table lists the categories.
C17_GroupsInTableOrder ==
  script \in {"basic", "advanced", "optimized"} =>
    IsSubsequence([g \in 1..Len(catalog.groups) |-> catalog.groups[g].category], TableOrder[script])

\* The content hash the script in use compares: the digest of the markup,
\* shortened to its first characters in ComponentExtractor.
HashIn(element) == IF script = "basic" THEN ElementHashPrefix(element) ELSE ElementHash(element)

\* The candidates of a discovery sequence with the hash h, in order.
WithHash(discovery, h) == SelectSeq(discovery, LAMBDA d : HashIn(d.element) = h)

\* comps starts with the components of prefix, in order
IsPrefix(prefix, comps) == Len(prefix) <= Len(comps) /\ SubSeq(comps, 1, Len(prefix)) = prefix

\* C18: first-seen-wins in ComponentExtractor, TailwindStyleExtractor and
\* HistoireMigrator. Processing a document never removes or replaces a
\* retained component; the final pass of ComponentExtractor.run keeps, of
\* the components with one hash, the first; and in a run in which no
\* document failed, at most one component is retained per hash and it
\* carries the source and the category of the first candidate of the
\* discovery order that has this hash.
C18_FirstSeenWins ==
  [][(script \in {"basic", "tailwind", "histoire"}) =>
       /\ (pc = "loop" /\ pc' = "loop") => IsPrefix(components, components')
       /\ (script = "basic" /\ pc = "loop" /\ pc' = "done") =>
            /\ IsSubsequence(components', components)
            /\ \A k \in 1..Len(components') :
                 components'[k] = SelectSeq(components, LAMBDA c : c.hash = components'[k].hash)[1]
       /\ (log' = <<>> /\ (script = "basic" => pc' = "done")) =>
            \A discovery \in {DiscoveryOf(script, SubSeq(html_files', 1, idx' - 1))} :
              \A keys \in {KeysOf(components')} :
                /\ \A i, j \in 1..Len(keys) :
                     i # j => HashIn(keys[i].element) # HashIn(keys[j].element)
                /\ \A k \in 1..Len(keys) :
                     \A first \in {WithHash(discovery, HashIn(keys[k].element))} :
                       first # <<>> /\ keys[k] = Head(first)]_vars

\* ComponentExtractor ran over two documents that both hold the <nav>
\* element, and over none that failed: one component with the element is
\* retained, and it is the one of the first document.
C18_Witness ==
  /\ script = "basic"
  /\ pc = "done"
  /\ log = <<>>
  /\ Len(html_files) = 2
  /\ \A d \in 1..2 : \E k \in 1..Len(BasicCandidatesOf[html_files[d]]) :
       BasicCandidatesOf[html_files[d]][k].elem = NavEl
  /\ Cardinality({k \in 1..Len(components) : components[k].element = NavEl}) = 1
  /\ \A k \in 1..Len(components) :
       components[k].element = NavEl => components[k].file_source = Basename(ContentOf[html_files[1]])

\* The catalog file each script writes into the directory it scans.
CatalogFileOf ==
  [s \in {"basic", "advanced", "optimized", "tailwind"} |->
     CASE s = "basic" -> <<"a","u","t","o","-","c","o","m","p","o","n","e","n","t","-","l","i","b","r","a","r","y",".","h","t","m","l">>
       [] s = "advanced" -> <<"c","o","m","p","o","n","e","n","t","-","l","i","b","r","a","r","y","-","a","d","v","a","n","c","e","d",".","h","t","m","l">>
       [] s = "optimized" -> <<"c","o","m","p","o","n","e","n","t","-","l","i","b","r","a","r","y","-","a","c","c","o","r","d","i","o","n",".","h","t","m","l">>
       [] s = "tailwind" -> <<"c","o","m","p","o","n","e","n","t","-","l","i","b","r","a","r","y","-","t","a","i","l","w","i","n","d",".","h","t","m","l">>]

\* C19: the documents a script processes never include the catalog file
\* the same script writes, so the catalog of an earlier run on the same
\* directory is not read as an input document; and the file a run writes
\* is the one named here.
C19_OwnCatalogNotScanned ==
  script \in DOMAIN CatalogFileOf =>
    /\ \A i \in 1..Len(html_files) : html_files[i].name # CatalogFileOf[script]
    /\ catalog.file \in {<<>>, CatalogFileOf[script]}

-----------------------------------------------------------------------------
\* A name that ends in Component_<digits>, as the fallback names
\* <Category>Component_<index> of HistoireMigrator.get_component_name do.
EndsInNumbered(comp_name) ==
  \E i \in 1..Len(comp_name) :
    /\ i + 10 <= Len(comp_name)
    /\ SubSeq(comp_name, i, i + 9) = <<"C","o","m","p","o","n","e","n","t","_">>
    /\ AllDigits(SubSeq(comp_name, i + 10, Len(comp_name)))

\* C21: when clean_existing_components has returned, the components
\* directory holds no component whose name ends in Component_<digits>.
C21_NumberedRemoved ==
  (script = "clean" /\ pc = "cleaned" /\ components_dir_exists)
    => \A n \in CompNames(comp_dir) : ~EndsInNumbered(n)

-----------------------------------------------------------------------------
\* The fields of the extractor, as extract_from_file reads and leaves them.
ExtractorState ==
  [components |-> components, categories |-> categories, seen_hashes |-> seen_hashes,
   component_count |-> component_count, log |-> log]

\* The candidates of a file that is_significant_element accepts.
SignificantCandidate(c) == IsSignificantElement(c.elem)

\* C22: the elements the filter rejects leave no trace. Handling a file
\* leaves the same components, categories, seen hashes and counter as
\* handling the file without the candidates that is_valid_component
\* (tailwind, histoire) or is_significant_element (basic) rejects.
C22_RejectedLeavesNoTrace ==
  (pc = "loop" /\ idx <= Len(html_files)) =>
    CASE script \in {"tailwind", "histoire"} ->
           \A cands \in {ExtractCandidates(script, html_files[idx])} :
             ExtractValidate(script, html_files[idx], 0, ExtractorState, cands)
               = ExtractValidate(script, html_files[idx], 0, ExtractorState,
                                 ValidateFrom(script, cands, 1, 0, seen_hashes, <<>>).valid)
      [] script = "basic" ->
           \A cands \in {BasicCandidatesOf[html_files[idx]]} :
             BasicLoop(cands, 1, 0, ContentOf[html_files[idx]], components, component_id, <<>>)
               = BasicLoop(SelectSeq(cands, SignificantCandidate), 1, 0,
                           ContentOf[html_files[idx]], components, component_id, <<>>)
      [] OTHER -> TRUE

\* A file has been handled of which one candidate was rejected for its
\* short text (its hash is not among the seen hashes) and another retained.
C22_Witness ==
  /\ script = "histoire"
  /\ pc = "loop"
  /\ idx > 1
  /\ log = <<>>
  /\ \E i \in 1..Len(ExtractCandidates(script, html_files[idx - 1])) :
       /\ Len(Text(ExtractCandidates(script, html_files[idx - 1])[i])) < HistoireMinText
       /\ ElementHash(ExtractCandidates(script, html_files[idx - 1])[i]) \notin seen_hashes
  /\ \E k \in 1..Len(components) : components[k].source = html_files[idx - 1].name

-----------------------------------------------------------------------------
\* The rule list of HistoireMigrator.get_component_category for an element:
\* whether each rule's predicate holds, and its label, in the listed order.
CategoryRules(element) ==
  << [holds |-> \/ element.tag = <<"n","a","v">>
                \/ \E c \in {Join(element.classes, <<" ">>)} : Contains(c, <<"n","a","v">>) \/ Contains(c, <<"n","a","v","i","g","a","t","i","o","n">>),
      label |-> <<"n","a","v","i","g","a","t","i","o","n">>],
     [holds |-> \/ element.tag = <<"h","e","a","d","e","r">>
                \/ \E c \in {Join(element.classes, <<" ">>)} : Contains(c, <<"h","e","a","d","e","r">>) \/ Contains(c, <<"h","e","r","o">>)
                \/ Contains(Slice(Lower(Text(element)), 100), <<"h","e","r","o">>),
      label |-> <<"h","e","r","o","e","s">>],
     [holds |-> element.tag = <<"f","o","o","t","e","r">> \/ Contains(Join(element.classes, <<" ">>), <<"f","o","o","t","e","r">>),
      label |-> <<"f","o","o","t","e","r","s">>],
     [holds |-> \/ Contains(Join(element.classes, <<" ">>), <<"t","e","s","t","i","m","o","n","i","a","l">>)
                \/ \E t \in {Lower(Text(element))} : Contains(t, <<"t","e","s","t","i","m","o","n","i","a","l">>) \/ Contains(t, <<"r","e","v","i","e","w">>),
      label |-> <<"t","e","s","t","i","m","o","n","i","a","l","s">>],
     [holds |-> \/ Contains(Join(element.classes, <<" ">>), <<"p","r","i","c","i","n","g">>)
                \/ \E t \in {Lower(Text(element))} : Contains(t, <<"p","r","i","c","e">>) \/ Contains(t, <<"p","l","a","n">>),
      label |-> <<"p","r","i","c","i","n","g">>],
     [holds |-> \/ \E c \in {Join(element.classes, <<" ">>)} : Contains(c, <<"f","e","a","t","u","r","e">>) \/ Contains(c, <<"s","e","r","v","i","c","e">>)
                \/ Contains(Slice(Lower(Text(element)), 100), <<"f","e","a","t","u","r","e">>),
      label |-> <<"f","e","a","t","u","r","e","s">>],
     [holds |-> \/ Contains(Join(element.classes, <<" ">>), <<"c","t","a">>)
                \/ \E t \in {Lower(Text(element))} : Contains(t, <<"c","a","l","l","-","t","o","-","a","c","t","i","o","n">>) \/ Contains(t, <<"g","e","t"," ","s","t","a","r","t","e","d">>),
      label |-> <<"c","t","a">>],
     [holds |-> \/ Contains(Join(element.classes, <<" ">>), <<"c","o","n","t","a","c","t">>)
                \/ \E t \in {Lower(Text(element))} : Contains(t, <<"c","o","n","t","a","c","t">>) \/ Contains(t, <<"e","m","a","i","l">>),
      label |-> <<"c","o","n","t","a","c","t">>],
     [holds |-> \E c \in {Join(element.classes, <<" ">>)} :
                  Contains(c, <<"b","l","o","g">>) \/ Contains(c, <<"a","r","t","i","c","l","e">>) \/ Contains(c, <<"p","o","s","t">>),
      label |-> <<"c","o","n","t","e","n","t">>] >>

CategoryLabels ==
  {<<"n","a","v","i","g","a","t","i","o","n">>, <<"h","e","r","o","e","s">>, <<"f","o","o","t","e","r","s">>, <<"t","e","s","t","i","m","o","n","i","a","l","s">>, <<"p","r","i","c","i","n","g">>, <<"f","e","a","t","u","r","e","s">>, <<"c","t","a">>,
   <<"c","o","n","t","a","c","t">>, <<"c","o","n","t","e","n","t">>}

\* The label of the first rule that holds, 'content' when none does.
FirstLabel(rules) ==
  IF \A i \in 1..Len(rules) : ~rules[i].holds THEN <<"c","o","n","t","e","n","t">>
  ELSE rules[CHOOSE i \in 1..Len(rules) : rules[i].holds /\ \A j \in 1..(i - 1) : ~rules[j].holds].label

\* Whether some pattern of entry i of component_patterns selects the element
\* e: by a class token, by the id, or by the tag name.
PatternsMatch(e, i) ==
  \E j \in 1..Len(ComponentPatterns[i].patterns) :
    \E pattern \in {ComponentPatterns[i].patterns[j]} :
      ClassMatches(e, pattern) \/ IdMatches(e, pattern) \/ (pattern \in TagPatterns /\ e.tag = pattern)

\* The category of the first entry of component_patterns that selects e.
FirstPatternCategory(e) ==
  Upper(ComponentPatterns[CHOOSE i \in 1..Len(ComponentPatterns) :
                            PatternsMatch(e, i) /\ \A j \in 1..(i - 1) : ~PatternsMatch(e, j)].category)

\* C23: HistoireMigrator gives each component one label of the fixed set,
\* the label of the first rule of the list that holds for its element and
\* 'content' when none holds; at the end of ComponentExtractor.run every
\* significant element the patterns selected is retained once, under the
\* first category of component_patterns that selects it.
C23_FirstMatchTotal ==
  /\ script = "histoire" =>
       \A k \in 1..Len(components) :
         /\ components[k].category \in CategoryLabels
         /\ components[k].category = FirstLabel(CategoryRules(components[k].element))
  /\ (script = "basic" /\ pc = "done" /\ log = <<>>) =>
       \A f \in 1..Len(html_files) :
         \A n \in 1..Len(BasicCandidatesOf[html_files[f]]) :
           \A e \in {BasicCandidatesOf[html_files[f]][n].elem} :
             IsSignificantElement(e) =>
               /\ Cardinality({k \in 1..Len(components) : components[k].element = e}) = 1
               /\ \A k \in 1..Len(components) :
                    components[k].element = e => components[k].category = FirstPatternCategory(e)

\* HistoireMigrator retained an element for which two rules hold: 'plan' in
\* the text (pricing) and 'contact' in the text (contact).
C23_Witness ==
  /\ script = "histoire"
  /\ pc = "done"
  /\ \E k \in 1..Len(components) :
       /\ Cardinality({i \in 1..9 : CategoryRules(components[k].element)[i].holds}) >= 2
       /\ components[k].category = <<"p","r","i","c","i","n","g">>

-----------------------------------------------------------------------------
\* The sum of the counts the groups show from group i on.
RECURSIVE CountsFrom(_, _)
CountsFrom(groups, i) ==
  IF i > Len(groups) THEN 0 ELSE Len(groups[i].comps) + CountsFrom(groups, i + 1)

\* The places <<group, position>> of the catalog that list component c.
PlacesOf(c) ==
  {p \in UNION {{<<g, j>> : j \in 1..Len(catalog.groups[g].comps)} : g \in 1..Len(catalog.groups)} :
     catalog.groups[p[1]].comps[p[2]] = c}

-----------------------------------------------------------------------------
\* C25: rename_components loses no component. While and after its loop
\* runs, the components directory holds as many component files as the
\* listing the loop iterates.
C25_RenameKeepsCount ==
  (script = "clean" /\ pc = "renaming" /\ components_dir_exists /\ ~crashed)
    => Cardinality(DOMAIN comp_dir) = Len(rename_files)

-----------------------------------------------------------------------------
\* The md5 of the template of the component file the listing held as comp_name.
TemplateHash(comp_name) == Md5(TemplateMatch(InitialContent(comp_name)).group)

\* The hashed names of the listing with the template hash of n.
SameHash(n) == {m \in HashedNames : TemplateHash(m) = TemplateHash(n)}

\* Whether the stories directory held a story file for comp_name at the start.
HadStory(comp_name) == (CHOOSE v \in VueLibrary : v.name = comp_name).story

\* C26: when the loop of clean_existing_components is over, of the component
\* files without a known-bad name that carry one template hash exactly one
\* is left, and the story file of that one, if it had one, is still there.
C26_OneCopySurvives ==
  (script = "clean" /\ pc = "cleaning" /\ ci > Len(component_files)) =>
    /\ ~crashed
    /\ \A n \in HashedNames :
         \A left \in {{m \in SameHash(n) : CompFile(m) \in DOMAIN comp_dir}} :
           /\ Cardinality(left) = 1
           /\ \A m \in left : HadStory(m) => StoryFile(m) \in DOMAIN story_dir

\* The loop is over for a listing with three files of one template hash:
\* one is left, with its story, and the story of a removed one is gone.
C26_Witness ==
  /\ script = "clean"
  /\ pc = "cleaning"
  /\ ci > Len(component_files)
  /\ \E n \in HashedNames :
       /\ Cardinality(SameHash(n)) = 3
       /\ CompFile(n) \in DOMAIN comp_dir
       /\ StoryFile(n) \in DOMAIN story_dir
       /\ \E m \in SameHash(n) : HadStory(m) /\ StoryFile(m) \notin DOMAIN story_dir

-----------------------------------------------------------------------------
\* The component name of a story file: the file name without '.story.vue'.
StoryName(story_file) == SubSeq(story_file, 1, Len(story_file) - 10)

\* C27: the cleanup leaves no orphan story. Every story file has the
\* component file of its name, before the run, after every iteration and
\* after each of the three passes.
C27_NoOrphanStory ==
  script = "clean" =>
    \A story_file \in DOMAIN story_dir : CompFile(StoryName(story_file)) \in DOMAIN comp_dir

\* rename_components has renamed a component with its story, in a directory
\* of three components of which one has no story.
C27_Witness ==
  /\ script = "clean"
  /\ pc = "renaming"
  /\ ri > Len(rename_files)
  /\ Len(rename_files) = 3
  /\ <<"W","h","e","r","e","R","u","s","t","i","c","C","h","a","r","m","_","3",".","v","u","e">> \in Range(rename_files)
  /\ <<"R","u","s","t","i","c","H","e","r","o","_","3",".","s","t","o","r","y",".","v","u","e">> \in DOMAIN story_dir
  /\ <<"R","u","s","t","i","c","H","e","r","o","_","3",".","v","u","e">> \in DOMAIN comp_dir
  /\ Cardinality(DOMAIN story_dir) < Cardinality(DOMAIN comp_dir)

-----------------------------------------------------------------------------
\* cats is a partition of comps: every component is at exactly one place of
\* cats, under the key of its own category, cats holds nothing else, and no
\* group of cats is empty.
IsPartition(comps, cats) ==
  /\ \A k \in 1..Len(comps) :
       \A places \in {{p \in UNION {{<<c, j>> : j \in 1..Len(cats[c])} : c \in DOMAIN cats} :
                         cats[p[1]][p[2]] = comps[k]}} :
         /\ Cardinality(places) = 1
         /\ \A p \in places : p[1] = comps[k].category
  /\ \A c \in DOMAIN cats :
       /\ cats[c] # <<>>
       /\ \A j \in 1..Len(cats[c]) : \E k \in 1..Len(comps) : comps[k] = cats[c][j]

\* C28: in TailwindStyleExtractor and HistoireMigrator self.categories is
\* always a partition of self.components, and so are the lists the limit of
\* the main block of migrate_to_histoire.py leaves, whatever the limit.
C28_CategoriesPartition ==
  script \in {"tailwind", "histoire"} =>
    /\ IsPartition(components, categories)
    /\ (script = "histoire" /\ pc = "done") =>
         \A limit \in 0..Len(components) :
           \A r \in {LimitComponents(components, categories, limit)} :
             /\ Len(r.components) = Min(limit, Len(components))
             /\ IsPartition(r.components, r.categories)

\* The migrator has components in two categories or more, two or more in
\* one of them, so that a limit cuts inside a group.
C28_Witness ==
  /\ script = "histoire"
  /\ pc = "saved"
  /\ Cardinality(DOMAIN categories) >= 2
  /\ \E c \in DOMAIN categories : Len(categories[c]) >= 2
  /\ Len(components) >= 4

-----------------------------------------------------------------------------
\* C29: the names of the components of a migrator run are pairwise
\* distinct, each ending in '_' and its own running index, and
\* save_components, which writes one component file and one story file for
\* each component, leaves as many files of each kind as there are components.
C29_DistinctNames ==
  script = "histoire" =>
    /\ \A i, j \in 1..Len(components) :
         i # j => /\ components[i].index # components[j].index
                  /\ components[i].name # components[j].name
    /\ \A k \in 1..Len(components) :
         \A digits \in {IntStr(components[k].index)} : EndsWith(components[k].name, <<"_">> \o digits)
    /\ pc = "saved" =>
         /\ DOMAIN comp_dir = {CompFile(components[k].name) : k \in 1..Len(components)}
         /\ DOMAIN story_dir = {StoryFile(components[k].name) : k \in 1..Len(components)}
         /\ Cardinality(DOMAIN comp_dir) = Len(components)
         /\ Cardinality(DOMAIN story_dir) = Len(components)

\* save_components has written the files of two components whose names
\* differ in the index only.
C29_Witness ==
  /\ script = "histoire"
  /\ pc = "saved"
  /\ \E i, j \in 1..Len(components) :
       /\ i # j
       /\ GetComponentNameNoIndex(components[i].element, components[i].category, 0)
            = GetComponentNameNoIndex(components[j].element, components[j].category, 0)
       /\ CompFile(components[i].name) \in DOMAIN comp_dir
       /\ CompFile(components[j].name) \in DOMAIN comp_dir

-----------------------------------------------------------------------------
\* C30: the loop of clean_existing_components never reaches for a file it
\* has deleted. The file an iteration processes is still in the directory,
\* no open or os.remove of the iteration fails, and the files the iteration
\* deletes are the file it processes or files processed before it.
C30_DeletedNotRevisited ==
  [][(pc = "cleaning" /\ ci <= Len(component_files) /\ ci' = ci + 1) =>
       /\ component_files[ci] \in DOMAIN comp_dir
       /\ ~crashed'
       /\ (DOMAIN comp_dir) \ (DOMAIN comp_dir') \subseteq {component_files[k] : k \in 1..ci}
       /\ \A k \in (ci + 1)..Len(component_files) : component_files[k] \in DOMAIN comp_dir']_vars

\* The second file of the listing has been processed and the first one,
\* whose name is not a known-bad one, was deleted as its duplicate.
C30_Witness ==
  /\ script = "clean"
  /\ pc = "cleaning"
  /\ ci = 3
  /\ component_files[1] \notin DOMAIN comp_dir
  /\ ~MatchesRemovePattern(Replace(component_files[1], <<".","v","u","e">>, <<>>))
  /\ component_files[2] \in DOMAIN comp_dir
  /\ Len(component_files) = 3

====
